---- MODULE Spec2Model ----
(***************************************************************************)
(* A model of tg-export (gumblex/tg-export): the message ledger and peer   *)
(* directory of export.py (log_msg, update_peer, process), the history     *)
(* synchronisation engine (export_text, export_for) and the hole-filling   *)
(* pass (export_holes).                                                    *)
(*                                                                         *)
(* Conventions.  A value that may be NULL/None is a sequence of length at  *)
(* most one (<<>> is NULL, <<v>> is v).  A canonical peer key              *)
(* peer_type<<32 | peer_id is the pair <<peer_type, peer_id>>, ordered     *)
(* like the integer (first by type, then by id).  A JSON object is a       *)
(* function whose DOMAIN is the set of its keys.                           *)
(***************************************************************************)
EXTENDS Integers, Sequences, FiniteSets, Bags, TLC

VARIABLES
    DB,          \* the sqlite connection's view: messages, peerinfo, channels
    disk,        \* the database file: the state of DB at the last commit
    PEER_CACHE,  \* the LRU cache of peer keys, least recently used first
    TG_TEST,     \* whether telegram-cli is the channel-aware 'test' branch
    call,        \* the last ledger call: its argument, result, and what it met
    remote,      \* the service: per dialog, how many messages its history holds
    pc,          \* where main is: "idle", "first", "retry", "done", "exited"
    run,         \* the number of the current run of the program
    force,       \* the --force flag of the current run
    dlist,       \* export_text: the shuffled dialog list
    idx,         \* export_text: the index of the current item of the pass
    failed,      \* export_text: the retry list, pairs <<item, pos>>
    newlist,     \* export_text: the retry list of the next pass
    ef,          \* the activation of export_for, [stage |-> "idle"] without one
    faults,      \* how many fetches have not been answered with their page
    suspended,   \* per dialog, the offset its last export_for failed at, if it did
    listing,     \* export_text: the locals of the dialog enumeration
    hp,          \* the activation of export_holes
    ready,       \* TelegramCliInterface.ready, the event the reader thread sets
    closed,      \* TelegramCliInterface.closed
    buffer,      \* TelegramCliInterface.buffer: the bytes received, not yet read
    sock,        \* TelegramCliInterface.sock and the bytes on their way to it
    proc,        \* where the reader thread _run_cli is with the process
    sc,          \* the activation of send_command
    popen,       \* the child processes started so far, each with its state
    selfproc,    \* TelegramCliInterface.proc: an index into popen, 0 for None
    tmpdir,      \* the directory of TelegramCliInterface.tmpdir on disk
    sockfile,    \* whether tgcli.sock exists in that directory
    cl,          \* the activation of close()
    MSG_Q,       \* the queue of push events, oldest first, each with its number
    puts,        \* how many events the reader thread has put so far
    got,         \* the numbers of the events process was called on, in order
    pq,          \* the activation of purge_queue
    stdout,      \* the lines the process has written to its standard output
    log          \* the reader loop: lines read so far, and the callbacks called

engineVars == <<remote, pc, run, force, dlist, idx, failed, newlist, ef, faults,
                suspended>>
queueVars == <<MSG_Q, puts, got, pq>>
passVars == <<listing, hp, queueVars>>
supVars == <<popen, selfproc, tmpdir, sockfile, cl>>
readerVars == <<stdout, log>>
tgVars == <<ready, closed, buffer, sock, proc, sc, supVars, readerVars>>
vars == <<DB, disk, PEER_CACHE, TG_TEST, call, remote, pc, run, force, dlist,
          idx, failed, newlist, ef, faults, suspended, listing, hp,
          ready, closed, buffer, sock, proc, sc,
          popen, selfproc, tmpdir, sockfile, cl, MSG_Q, puts, got, pq,
          stdout, log>>

(***************************************************************************)
(* Bounds of the model.                                                    *)
(***************************************************************************)
MaxMsgId == 2      \* message ids offered to the ledger are 1..MaxMsgId
MaxRows  == 2      \* log_msg is offered while the table holds fewer rows
MaxBatch == 2      \* longest message list handed to process
PageSize == 2      \* messages per history page (export_for asks for 100)
MaxHist  == 3      \* a dialog's history holds at most MaxHist messages
MaxRuns  == 2      \* the program is run at most MaxRuns times
MaxFaults == 1     \* at most MaxFaults fetches raise or are answered oddly

(***************************************************************************)
(* Generic helpers.                                                        *)
(***************************************************************************)
Range(s) == {s[i] : i \in 1..Len(s)}

RemoveKey(s, key) == SelectSeq(s, LAMBDA x : x # key)

Max2(a, b) == IF a >= b THEN a ELSE b

(***************************************************************************)
(* tgl_peer_id_t: the peer types and the canonical key.                    *)
(***************************************************************************)
TGL_PEER_USER == 1
TGL_PEER_CHAT == 2
TGL_PEER_ENCR_CHAT == 4
TGL_PEER_CHANNEL == 5

from_peer(peer) ==
    CASE peer.peer_type = "user" -> [peer_type |-> TGL_PEER_USER, peer_id |-> peer.peer_id]
      [] peer.peer_type = "chat" -> [peer_type |-> TGL_PEER_CHAT, peer_id |-> peer.peer_id]
      [] peer.peer_type = "encr_chat" -> [peer_type |-> TGL_PEER_ENCR_CHAT, peer_id |-> peer.peer_id]
      [] peer.peer_type = "channel" -> [peer_type |-> TGL_PEER_CHANNEL, peer_id |-> peer.peer_id]

to_id(p) == <<p.peer_type, p.peer_id>>

\* getpeerid(obj, key): the canonical key of obj[key], None when key is absent
getpeerid(obj, key) ==
    IF key \in DOMAIN obj THEN <<to_id(from_peer(obj[key]))>> ELSE <<>>

\* getmsgid(obj, key): an integer id as it is, the id field of a hex
\* encoded tgl_message_id_t otherwise; None when key is absent
getmsgid(obj, key) ==
    IF key \in DOMAIN obj THEN <<obj[key].id>> ELSE <<>>

\* dict.get(key)
Get(obj, key) == IF key \in DOMAIN obj THEN <<obj[key]>> ELSE <<>>

(***************************************************************************)
(* LRUCache.  The cached values are peer objects; update_peer uses only    *)
(* their truth value and a peer object is never empty, so the cache is     *)
(* the sequence of its keys.                                               *)
(***************************************************************************)
Capacity == 10

\* a get(key) that leaves the order of the cache alone
LRU_touch_keep(cache, key) == cache

\* get(key) finds the key: the key becomes the most recently used
LRU_touch(cache, key) == Append(RemoveKey(cache, key), key)

\* __setitem__ of a cache constructed with LRUCache(capacity)
LRU_set(cache, key, capacity) ==
    IF key \in Range(cache) THEN Append(RemoveKey(cache, key), key)
    ELSE IF Len(cache) >= capacity THEN Append(Tail(cache), key)
    ELSE Append(cache, key)

LRU_setitem(cache, key) == LRU_set(cache, key, Capacity)

(***************************************************************************)
(* The store.  st is [messages, peerinfo, channels, cache]: the three      *)
(* tables the engine reads back, and the peer cache.  The users and chats  *)
(* tables are only ever written and are left out.                          *)
(***************************************************************************)
EmptyDB == [messages |-> EmptyBag, peerinfo |-> << >>, channels |-> {}]

St(db, cache) ==
    [messages |-> db.messages, peerinfo |-> db.peerinfo,
     channels |-> db.channels, cache |-> cache]

DBof(st) ==
    [messages |-> st.messages, peerinfo |-> st.peerinfo, channels |-> st.channels]

\* update_peer with pid the canonical key of the peer
\* update_peer writing the whole peerinfo row anew (REPLACE INTO)
UpdatePeerAt_replace(st, peer, pid) ==
    IF pid \in Range(st.cache) THEN [st EXCEPT !.cache = LRU_touch(st.cache, pid)]
    ELSE [messages |-> st.messages,
          channels |-> IF peer.peer_type = "channel"
                       THEN st.channels \cup {peer.peer_id}
                       ELSE st.channels,
          peerinfo |-> IF pid \in DOMAIN st.peerinfo
                       THEN [st.peerinfo EXCEPT ![pid].print_name = peer.print_name,
                                                  ![pid].finished = 0]
                       ELSE st.peerinfo @@
                            (pid :> [type |-> peer.peer_type,
                                     print_name |-> peer.print_name,
                                     finished |-> 0]),
          cache |-> LRU_setitem(st.cache, pid)]

UpdatePeerAt(st, peer, pid) ==
    IF pid \in Range(st.cache) THEN [st EXCEPT !.cache = LRU_touch(st.cache, pid)]
    ELSE [messages |-> st.messages,
          channels |-> IF peer.peer_type = "channel"
                       THEN st.channels \cup {peer.peer_id}
                       ELSE st.channels,
          peerinfo |-> IF pid \in DOMAIN st.peerinfo
                       THEN [st.peerinfo EXCEPT ![pid].print_name = peer.print_name]
                       ELSE st.peerinfo @@
                            (pid :> [type |-> peer.peer_type,
                                     print_name |-> peer.print_name,
                                     finished |-> 0]),
          cache |-> LRU_setitem(st.cache, pid)]

update_peer(st, peer) == UpdatePeerAt(st, peer, to_id(from_peer(peer)))

\* the peerinfo row of a peer, by its canonical key
HasRow(st, peer) == to_id(from_peer(peer)) \in DOMAIN st.peerinfo

\* is_finished(peer): None without a peerinfo row, else its finished column
is_finished(st, peer) ==
    IF HasRow(st, peer) THEN <<st.peerinfo[to_id(from_peer(peer))].finished>> ELSE <<>>

\* set_finished(peer, pos): an UPDATE, so nothing without a peerinfo row
set_finished(st, peer, pos) ==
    IF HasRow(st, peer)
    THEN [st EXCEPT !.peerinfo[to_id(from_peer(peer))].finished = pos]
    ELSE st

(***************************************************************************)
(* log_msg.                                                                *)
(***************************************************************************)
\* SELECT 1 FROM messages WHERE id = ? AND dest = ?  with the raw msg['id']:
\* a hex string equals no INTEGER id, and NULL equals nothing
SelectRow(messages, rawid, dest) ==
    \E r \in BagToSet(messages) :
        /\ rawid.form = "int"
        /\ r.id = <<rawid.id>>
        /\ dest # <<>>
        /\ r.dest = dest

\* REPLACE INTO messages: PRIMARY KEY (id, dest); rows with a NULL key
\* column never conflict
Conflicts(messages, row) ==
    {r \in BagToSet(messages) :
        /\ row.id # <<>> /\ row.dest # <<>>
        /\ r.id = row.id /\ r.dest = row.dest}

Without(messages, rows) == [r \in (BagToSet(messages) \ rows) |-> messages[r]]

Replace(messages, row) ==
    Without(messages, Conflicts(messages, row)) (+) SetToBag({row})

Row(msg) ==
    [id |-> getmsgid(msg, "id"), src |-> getpeerid(msg, "from"),
     dest |-> getpeerid(msg, "to"), text |-> Get(msg, "text"),
     flags |-> Get(msg, "flags")]

\* if key in msg: update_peer(msg[key])
UpdateKey(st, msg, key) ==
    IF key \in DOMAIN msg THEN update_peer(st, msg[key]) ELSE st

\* lines 247-252
UpdatePeers(st, msg) ==
    UpdateKey(UpdateKey(UpdateKey(st, msg, "from"), msg, "to"), msg, "fwd_from")

\* lines 257-259 with the write for new rows only (the test for 'flags' dropped)
LogMsgWrite_newonly(st, msg, ret) ==
    [st |-> IF ret
            THEN [st EXCEPT !.messages = Replace(st.messages, Row(msg))]
            ELSE st,
     ret |-> ret]

\* lines 257-259: ret is whether the lookup of line 253 found no row
LogMsgWrite(st, msg, ret) ==
    [st |-> IF ret \/ "flags" \in DOMAIN msg
            THEN [st EXCEPT !.messages = Replace(st.messages, Row(msg))]
            ELSE st,
     ret |-> ret]

\* lines 253-259
LogMsgLookup(st, msg) ==
    LogMsgWrite(st, msg, ~SelectRow(st.messages, msg.id, getpeerid(msg, "to")))

\* returns [st, ret]
log_msg(st, msg) == LogMsgLookup(UpdatePeers(st, msg), msg)

(***************************************************************************)
(* process.  An answer or event is [kind, obj]: kind "list" with a         *)
(* sequence of messages, kind "dict" with a JSON object, kind "str" with   *)
(* a text.  Returns [st, res, raised]: res is the pair (True, hit),        *)
(* (False, 0) or (None, None); raised tells that process raised instead    *)
(* (ValueError on the empty text, KeyError on an online-status event       *)
(* without 'user').  The dialog_list command that a 'can not parse'        *)
(* failure sends changes nothing here and is left out.                     *)
(***************************************************************************)
ResTrue(hit) == [ok |-> "True", hit |-> hit]
ResFalse == [ok |-> "False", hit |-> 0]
NoRes == [ok |-> "None", hit |-> 0]

\* hit += log_msg(msg), as a number
Hit(r) == IF r.ret THEN 1 ELSE 0

RECURSIVE ProcessList(_, _, _)
RECURSIVE ProcessRest(_, _, _)
ProcessList(st, obj, hit) ==
    IF obj = << >> THEN [st |-> st, res |-> ResTrue(hit), raised |-> FALSE]
    ELSE ProcessRest(log_msg(st, Head(obj)), Tail(obj), hit)

ProcessRest(r, rest, hit) == ProcessList(r.st, rest, hit + Hit(r))

\* (True, log_msg(msg))
ProcessEvent(r) == [st |-> r.st, res |-> ResTrue(Hit(r)), raised |-> FALSE]

ProcessDict(st, msg) ==
    IF "event" \in DOMAIN msg /\ msg.event \in {"message", "service", "read"}
    THEN ProcessEvent(log_msg(st, msg))
    ELSE IF "event" \in DOMAIN msg /\ msg.event = "online-status"
    THEN IF "user" \in DOMAIN msg
         THEN [st |-> update_peer(st, msg.user), res |-> NoRes, raised |-> FALSE]
         ELSE [st |-> st, res |-> NoRes, raised |-> TRUE]
    ELSE IF "peer" \in DOMAIN msg
    THEN [st |-> update_peer(st, msg.peer), res |-> NoRes, raised |-> FALSE]
    ELSE IF "result" \in DOMAIN msg /\ msg.result = "FAIL"
    THEN [st |-> st, res |-> ResFalse, raised |-> FALSE]
    ELSE [st |-> st, res |-> NoRes, raised |-> FALSE]

process(st, ans) ==
    IF ans.kind = "list"
    THEN IF ans.obj = << >> THEN [st |-> st, res |-> ResFalse, raised |-> FALSE]
         ELSE ProcessList(st, ans.obj, 0)
    ELSE IF ans.kind = "dict" THEN ProcessDict(st, ans.obj)
    ELSE [st |-> st, res |-> NoRes, raised |-> ans.obj = ""]

(***************************************************************************)
(* The ledger on its own: log_msg and process offered every message.       *)
(***************************************************************************)
User5 == [peer_type |-> "user", peer_id |-> 5, print_name |-> "u5"]
User6 == [peer_type |-> "user", peer_id |-> 6, print_name |-> "u6"]

MsgIds == {[form |-> f, id |-> n] : f \in {"int", "hex"}, n \in 1..MaxMsgId}

\* id-only stubs, stubs with a destination, and full messages (with flags)
Stubs == {[id |-> i] : i \in MsgIds}
Partial == {[id |-> i, to |-> User5, text |-> t] : i \in MsgIds, t \in {"a", "b"}}
Full == {[id |-> i, from |-> User6, to |-> User5, text |-> t, flags |-> f] :
            i \in MsgIds, t \in {"a", "b"}, f \in {0, 1}}
Messages == Stubs \cup Partial \cup Full

\* message lists as a history answer holds them: full messages, one id form
HistMsgs == {x \in Full : x.text = "a" /\ x.flags = 1}

Batches ==
    {obj \in UNION {[1..n -> HistMsgs] : n \in 1..MaxBatch} :
        \A i \in DOMAIN obj : obj[i].id.form = obj[1].id.form}

\* the rows stored under the key (id, dest) the message is stored with
RowsOf(messages, msg) ==
    {r \in BagToSet(messages) : r.id = getmsgid(msg, "id") /\ r.dest = getpeerid(msg, "to")}

RECURSIVE NewRows(_, _)
NewRows(messages, obj) ==
    IF obj = << >> THEN 0
    ELSE (IF RowsOf(messages, Head(obj)) = {} THEN 1 ELSE 0)
         + NewRows(Replace(messages, Row(Head(obj))), Tail(obj))

NoCall == [op |-> "none"]

Idle == [stage |-> "idle"]

EngineIdle ==
    /\ remote = << >>
    /\ pc = "idle"
    /\ run = 0
    /\ force = FALSE
    /\ dlist = << >>
    /\ idx = 0
    /\ failed = << >>
    /\ newlist = << >>
    /\ ef = Idle
    /\ faults = 0
    /\ suspended = << >>

\* the event queue is left out
QueueIdle ==
    /\ MSG_Q = << >>
    /\ puts = 0
    /\ got = << >>
    /\ pq = Idle

PassIdle ==
    /\ listing = Idle
    /\ hp = Idle
    /\ QueueIdle

\* the processes, the directory and close() are left out
SupIdle ==
    /\ popen = << >>
    /\ selfproc = 0
    /\ tmpdir = "none"
    /\ sockfile = FALSE
    /\ cl = Idle
    /\ stdout = << >>
    /\ log = Idle

\* no TelegramCliInterface has been constructed
TgIdle ==
    /\ ready = FALSE
    /\ closed = FALSE
    /\ buffer = << >>
    /\ sock = Idle
    /\ proc = "none"
    /\ sc = Idle
    /\ SupIdle

LedgerInit ==
    /\ DB = EmptyDB
    /\ disk = EmptyDB
    /\ PEER_CACHE = << >>
    /\ TG_TEST \in BOOLEAN
    /\ call = NoCall
    /\ EngineIdle
    /\ PassIdle
    /\ TgIdle

LogMsg ==
    \E msg \in Messages :
        /\ BagCardinality(DB.messages) < MaxRows
        /\ LET r == log_msg(St(DB, PEER_CACHE), msg)
           IN  /\ DB' = DBof(r.st)
               /\ PEER_CACHE' = r.st.cache
               /\ call' = [op |-> "log_msg", msg |-> msg, ret |-> r.ret,
                           before |-> RowsOf(DB.messages, msg),
                           after |-> RowsOf(r.st.messages, msg),
                           untouched |-> (r.st.messages = DB.messages)]
        /\ UNCHANGED <<disk, TG_TEST>>
        /\ UNCHANGED <<engineVars, passVars, tgVars>>

Process ==
    \E obj \in Batches :
        /\ BagCardinality(DB.messages) < MaxRows
        /\ LET r == process(St(DB, PEER_CACHE), [kind |-> "list", obj |-> obj])
           IN  /\ DB' = DBof(r.st)
               /\ PEER_CACHE' = r.st.cache
               /\ call' = [op |-> "process", obj |-> obj, hit |-> r.res.hit,
                           created |-> NewRows(DB.messages, obj)]
        /\ UNCHANGED <<disk, TG_TEST>>
        /\ UNCHANGED <<engineVars, passVars, tgVars>>

\* process is called once more on the batch it was last called on
Reprocess ==
    /\ call.op = "process"
    /\ LET r == process(St(DB, PEER_CACHE), [kind |-> "list", obj |-> call.obj])
       IN  /\ DB' = DBof(r.st)
           /\ PEER_CACHE' = r.st.cache
           /\ call' = [op |-> "reprocess", obj |-> call.obj, hit |-> r.res.hit,
                       same |-> (r.st.messages = DB.messages)]
    /\ UNCHANGED <<disk, TG_TEST>>
    /\ UNCHANGED <<engineVars, passVars, tgVars>>

LedgerNext == LogMsg \/ Process \/ Reprocess

SpecLedger == LedgerInit /\ [][LedgerNext]_vars

(***************************************************************************)
(* C9 as the specification states it: a row already present for            *)
(* (id, destination) is left untouched unless the incoming record carries  *)
(* a nonzero flags value and the stored row's flags are zero or absent.    *)
(* Stated for the plain case: an integer message id and a destination.     *)
(***************************************************************************)
NonzeroFlags(msg) == "flags" \in DOMAIN msg /\ msg.flags # 0

C9_UntouchedUnlessFinalizing ==
    (/\ call.op = "log_msg" /\ call.before # {}
     /\ call.msg.id.form = "int" /\ "to" \in DOMAIN call.msg) =>
        \/ call.untouched
        \/ /\ NonzeroFlags(call.msg)
           /\ \A r \in call.before : r.flags \in {<<>>, <<0>>}

(***************************************************************************)
(* C9 as the code has it: a row already present for (id, destination) is   *)
(* left untouched when the incoming record has no flags field, an integer  *)
(* id and a destination; in every other case the incoming record is        *)
(* written, and with a destination it replaces the stored row whatever     *)
(* the flags of either are.                                                *)
(***************************************************************************)
C9_UntouchedUnlessFlagsField ==
    (call.op = "log_msg" /\ call.before # {}) =>
        IF /\ "flags" \notin DOMAIN call.msg
           /\ call.msg.id.form = "int"
           /\ "to" \in DOMAIN call.msg
        THEN call.untouched
        ELSE /\ Row(call.msg) \in call.after
             /\ "to" \in DOMAIN call.msg => call.after = {Row(call.msg)}

\* a full message has overwritten a different stored row with nonzero flags
C9_Witness ==
    /\ call.op = "log_msg"
    /\ call.msg.id.form = "int"
    /\ NonzeroFlags(call.msg)
    /\ \E r \in call.before : r.flags = <<1>> /\ r # Row(call.msg)
    /\ ~call.untouched
    /\ call.after = {Row(call.msg)}

(***************************************************************************)
(* C10: log_msg returns true exactly when no row with the same (message    *)
(* id as it is stored, destination key) existed before the call, and       *)
(* process reports as hit the number of rows newly created.                *)
(***************************************************************************)
C10_ReturnsWasNew ==
    /\ call.op = "log_msg" => (call.ret <=> call.before = {})
    /\ call.op = "process" => call.hit = call.created

(***************************************************************************)
(* C11, idempotence: calling process on a batch a second time leaves the   *)
(* messages table as the first call left it and reports 0 new rows (the    *)
(* batches offered hold complete messages, so no stub is upgraded).        *)
(***************************************************************************)
C11_Idempotent ==
    call.op = "reprocess" => (call.same /\ call.hit = 0)

(***************************************************************************)
(* The service.  The history of dialog d holds remote[d] messages with     *)
(* ids 1..remote[d]; cmd_history(d, 100, offset) answers the page of the   *)
(* messages offset, offset+1, ... counted from the newest one.             *)
(***************************************************************************)
Self  == [peer_type |-> "user", peer_id |-> 1, print_name |-> "me"]
Chat7 == [peer_type |-> "chat", peer_id |-> 7, print_name |-> "c7"]
Dialogs == {User5, Chat7}

Min2(a, b) == IF a <= b THEN a ELSE b

HistMsg(item, n, tgtest) ==
    [id |-> [form |-> IF tgtest THEN "hex" ELSE "int", id |-> n],
     from |-> Self, to |-> item, text |-> "a", flags |-> 1]

cmd_history(rem, item, offset, tgtest) ==
    [i \in 1..Min2(PageSize, Max2(rem[item] - offset, 0)) |->
        HistMsg(item, rem[item] - offset - i + 1, tgtest)]

\* every message of the dialog's history has its row in the table
Synced(messages, rem, item) ==
    \A n \in 1..rem[item] :
        \E r \in BagToSet(messages) :
            r.id = <<n>> /\ r.dest = <<to_id(from_peer(item))>>

Cursor(db, item) == db.peerinfo[to_id(from_peer(item))].finished

\* the ids of the dialog's rows in the table
GotOf(messages, item) ==
    {r.id[1] : r \in {x \in BagToSet(messages) :
                        x.id # <<>> /\ x.dest = <<to_id(from_peer(item))>>}}


(***************************************************************************)
(* export_for, one history fetch at a time.  The activation fr holds the   *)
(* locals item, pos and res, and the stage the next fetch belongs to:      *)
(* "probe" (the first 100), "overlap" (the first while loop), "tail" (the  *)
(* second), or "return" with ret the value returned (<<>> is None).  The   *)
(* other fields record the call: fetches, the offsets asked for; pages,    *)
(* the offsets of the pages processed; and what the call started from:     *)
(* its pos (pos0), the table size (rows0), the dialog's cursor (cursor0),  *)
(* whether the ledger held the whole history (synced0), the ids of the     *)
(* dialog's rows (got0), the peerinfo                                      *)
(* table (info0), the fault count (faults0) and the offset the dialog's    *)
(* previous export failed at (resume0).                                    *)
(***************************************************************************)
\* ReturnNone that returns without writing the cursor
ReturnNone_nocursor(st, fr) ==
    [st |-> st,
     fr |-> [fr EXCEPT !.stage = "return", !.ret = <<>>]]

\* lines 364-365
ReturnNone(st, fr) ==
    [st |-> set_finished(st, fr.item, fr.pos),
     fr |-> [fr EXCEPT !.stage = "return", !.ret = <<>>]]

\* line 354 evaluated with pos as lines 350-351 leave it
SecondLoop(st, fr, pos) ==
    IF fr.res.ok = "True"
    THEN [st |-> st, fr |-> [fr EXCEPT !.stage = "tail", !.pos = pos]]
    ELSE ReturnNone(st, [fr EXCEPT !.pos = pos])

\* lines 350-351
Finish(st, fr, frc) ==
    SecondLoop(st, fr, IF frc THEN fr.pos
                       ELSE Max2(fr.pos, is_finished(st, fr.item)[1]))

\* from the answer of a fetch to the next fetch, or to the normal return:
\* the tests of lines 344 and 354
Continue(st, fr, frc) ==
    IF fr.stage \in {"probe", "overlap"}
    THEN IF fr.res.ok = "True" /\ fr.res.hit = 0
         THEN [st |-> st, fr |-> [fr EXCEPT !.stage = "overlap"]]
         ELSE Finish(st, fr, frc)
    ELSE IF fr.res.ok = "True"
         THEN [st |-> st, fr |-> fr]
         ELSE ReturnNone(st, fr)

\* the activation once line 336 has run
Frame(st, item, pos, rem, nfaults, resume) ==
    [st |-> st,
     fr |-> [stage |-> IF pos = 0 THEN "probe" ELSE "overlap",
             item |-> item, pos |-> pos, pos0 |-> pos,
             res |-> ResTrue(0), ret |-> <<>>,
             fetches |-> << >>, pages |-> << >>,
             rows0 |-> BagCardinality(st.messages),
             cursor0 |-> is_finished(st, item),
             synced0 |-> Synced(st.messages, rem, item),
             got0 |-> GotOf(st.messages, item),
             info0 |-> st.peerinfo,
             faults0 |-> nfaults,
             resume0 |-> resume]]

\* export_for(item, pos, force) up to its first fetch: lines 335-342
Enter(st, item, pos, rem, nfaults, resume) ==
    Frame(IF pos = 0 THEN update_peer(st, item) ELSE st,
          item, pos, rem, nfaults, resume)

\* lines 359-363: the fetch at fr.pos, or process on its answer, raised
Raised(st, fr) ==
    [st |-> IF fr.pos > is_finished(st, fr.item)[1]
            THEN set_finished(st, fr.item, fr.pos)
            ELSE st,
     fr |-> [fr EXCEPT !.stage = "return", !.ret = <<fr.pos>>,
                       !.fetches = Append(fr.fetches, fr.pos)]]

\* Fetched that advances pos only past a page that held messages
Fetched_nonempty(fr, res) ==
    [fr EXCEPT !.res = res,
               !.pos = IF res.ok # "True" THEN fr.pos
                       ELSE IF fr.stage = "probe" THEN PageSize ELSE fr.pos + PageSize,
               !.fetches = Append(fr.fetches, fr.pos),
               !.pages = Append(fr.pages, fr.pos)]

\* res = process(msglist); pos = 100 (line 340) or pos += 100
Fetched(fr, res) ==
    [fr EXCEPT !.res = res,
               !.pos = IF fr.stage = "probe" THEN PageSize ELSE fr.pos + PageSize,
               !.fetches = Append(fr.fetches, fr.pos),
               !.pages = Append(fr.pages, fr.pos)]

\* AfterProcess with the cursor written after every page
AfterProcess_eachpage(r, fr, frc) ==
    IF r.raised THEN Raised(r.st, fr)
    ELSE Continue(set_finished(r.st, fr.item, Fetched(fr, r.res).pos),
                  Fetched(fr, r.res), frc)

\* r is what process made of the answer of the fetch at fr.pos
AfterProcess(r, fr, frc) ==
    IF r.raised THEN Raised(r.st, fr)
    ELSE Continue(r.st, Fetched(fr, r.res), frc)

\* the fetch at fr.pos answered with ans
Answered(st, fr, frc, ans) == AfterProcess(process(st, ans), fr, frc)

(***************************************************************************)
(* main and export_text from "Exporting messages..." on.  The reader       *)
(* thread delivers no pushed event here: MSG_Q stays empty and purge_queue *)
(* finds nothing.                                                          *)
(***************************************************************************)
Perms(S) == {p \in [1..Cardinality(S) -> S] : Range(p) = S}

\* lines 452-453
RECURSIVE UpdateAll(_, _)
UpdateAll(st, items) ==
    IF items = << >> THEN st
    ELSE UpdateAll(update_peer(st, Head(items)), Tail(items))

SyncInit ==
    /\ DB = EmptyDB
    /\ disk = EmptyDB
    /\ PEER_CACHE = << >>
    /\ TG_TEST \in BOOLEAN
    /\ call = NoCall
    /\ remote \in [Dialogs -> 0..MaxHist]
    /\ pc = "idle"
    /\ run = 0
    /\ force = FALSE
    /\ dlist = << >>
    /\ idx = 0
    /\ failed = << >>
    /\ newlist = << >>
    /\ ef = Idle
    /\ faults = 0
    /\ suspended = [d \in Dialogs |-> <<>>]
    /\ PassIdle
    /\ TgIdle

\* the connection's view and the cache after a step of the engine
Store(st) ==
    /\ DB' = DBof(st)
    /\ PEER_CACHE' = st.cache

\* a run of the program up to the first export_for: init_db opens the
\* file, export_text sees itself and lists, updates and shuffles the dialogs
StartRun ==
    /\ pc \in {"idle", "done", "exited"}
    /\ run < MaxRuns
    /\ \E f \in BOOLEAN, dl \in Perms(Dialogs) :
        /\ force' = f
        /\ dlist' = dl
        /\ Store(UpdateAll(update_peer(St(disk, << >>), Self), dl))
    /\ run' = run + 1
    /\ pc' = "first"
    /\ idx' = 1
    /\ failed' = << >>
    /\ newlist' = << >>
    /\ ef' = Idle
    /\ UNCHANGED <<disk, TG_TEST, call, remote, faults, suspended, passVars, tgVars>>

\* a message arrives between two runs
Arrive ==
    /\ pc \in {"done", "exited"}
    /\ run < MaxRuns
    /\ \E d \in Dialogs :
        /\ remote[d] < MaxHist
        /\ remote' = [remote EXCEPT ![d] = @ + 1]
    /\ pc' = "idle"
    /\ UNCHANGED <<DB, disk, PEER_CACHE, TG_TEST, call, run, force, dlist,
                   idx, failed, newlist, ef, faults, suspended, passVars, tgVars>>

\* the item and the offset the pass is at: lines 458-459 and 467-468
Current == IF pc = "first" THEN <<dlist[idx], 0>> ELSE failed[idx]
PassLen == IF pc = "first" THEN Len(dlist) ELSE Len(failed)

\* a step inside export_for: the store and the activation move on
Step(r) ==
    /\ Store(r.st)
    /\ ef' = r.fr

CallExportFor ==
    /\ pc \in {"first", "retry"}
    /\ ef.stage = "idle"
    /\ idx <= PassLen
    /\ Step(Enter(St(DB, PEER_CACHE), Current[1], Current[2], remote, faults,
                  suspended[Current[1]]))
    /\ UNCHANGED <<disk, TG_TEST, call, remote, pc, run, force, dlist, idx,
                   failed, newlist, faults, suspended, passVars, tgVars>>

\* what cmd_history may answer instead of the page: a FAIL object, another
\* object, a text, the empty text
OddDicts == {[result |-> "FAIL", error |-> "e"], [result |-> "SUCCESS"]}
OddTexts == {"x", ""}

Fetching == pc \in {"first", "retry"} /\ ef.stage \in {"probe", "overlap", "tail"}

\* the fetch of the activation is answered with ans
Answer(ans) == Step(Answered(St(DB, PEER_CACHE), ef, force, ans))

\* cmd_history answers with the page of the history
HistoryAnswer ==
    /\ Fetching
    /\ Answer([kind |-> "list", obj |-> cmd_history(remote, ef.item, ef.pos, TG_TEST)])
    /\ UNCHANGED <<disk, TG_TEST, call, remote, pc, run, force, dlist, idx,
                   failed, newlist, faults, suspended, passVars, tgVars>>

\* cmd_history answers with an object that is not a list of messages
HistoryObject ==
    /\ Fetching
    /\ faults < MaxFaults
    /\ faults' = faults + 1
    /\ \E obj \in OddDicts : Answer([kind |-> "dict", obj |-> obj])
    /\ UNCHANGED <<disk, TG_TEST, call, remote, pc, run, force, dlist, idx,
                   failed, newlist, suspended, passVars, tgVars>>

\* cmd_history answers with a text that is not JSON
HistoryText ==
    /\ Fetching
    /\ faults < MaxFaults
    /\ faults' = faults + 1
    /\ \E obj \in OddTexts : Answer([kind |-> "str", obj |-> obj])
    /\ UNCHANGED <<disk, TG_TEST, call, remote, pc, run, force, dlist, idx,
                   failed, newlist, suspended, passVars, tgVars>>

\* cmd_history raises: a timeout, a lost connection, a malformed status line
HistoryRaises ==
    /\ Fetching
    /\ faults < MaxFaults
    /\ faults' = faults + 1
    /\ Step(Raised(St(DB, PEER_CACHE), ef))
    /\ UNCHANGED <<disk, TG_TEST, call, remote, pc, run, force, dlist, idx,
                   failed, newlist, suspended, passVars, tgVars>>

\* Requeue that takes the returned offset for a truth value
Requeue_truthy(list, fr) ==
    IF fr.ret # <<>> /\ fr.ret[1] # 0
    THEN Append(list, <<fr.item, fr.ret[1]>>)
    ELSE list

\* lines 460-461 and 469-470: if res is not None: append((item, res))
Requeue(list, fr) ==
    IF fr.ret # <<>> THEN Append(list, <<fr.item, fr.ret[1]>>) ELSE list

\* NextPass with the retry list reprocessed once
NextPass_once(p, acc) ==
    IF acc # << >> /\ p = "first" THEN "retry" ELSE "done"

\* line 465, while failed: after pass p has left the retry list acc
NextPass(p, acc) == IF acc # << >> THEN "retry" ELSE "done"

\* DB.commit()
Commit(db) == db

\* the process has ended: its memory (the connection's view, the cache,
\* the locals of export_text) is gone, the database file stays
Exit ==
    /\ PEER_CACHE' = << >>
    /\ force' = FALSE
    /\ dlist' = << >>
    /\ idx' = 0
    /\ failed' = << >>
    /\ newlist' = << >>
    /\ ef' = Idle

\* the list the pass at hand appends to
Appending == IF pc = "first" THEN failed ELSE newlist

\* export_for has returned: lines 460-464 and 469-474
Returned ==
    /\ pc \in {"first", "retry"}
    /\ ef.stage = "return"
    /\ suspended' = [suspended EXCEPT ![ef.item] = ef.ret]
    /\ LET acc == Requeue(Appending, ef)
       IN  IF idx < PassLen
           THEN /\ idx' = idx + 1
                /\ IF pc = "first"
                   THEN failed' = acc /\ UNCHANGED newlist
                   ELSE newlist' = acc /\ UNCHANGED failed
                /\ ef' = Idle
                /\ UNCHANGED <<pc, disk, PEER_CACHE, force, dlist>>
           ELSE /\ disk' = Commit(DB)
                /\ pc' = NextPass(pc, acc)
                /\ IF NextPass(pc, acc) = "retry"
                   THEN /\ idx' = 1
                        /\ failed' = acc
                        /\ newlist' = << >>
                        /\ ef' = Idle
                        /\ UNCHANGED <<PEER_CACHE, force, dlist>>
                   ELSE Exit
    /\ UNCHANGED <<DB, TG_TEST, call, remote, run, faults, passVars, tgVars>>

\* an exception that export_for does not catch (KeyboardInterrupt) ends
\* export_text; the finally clause of main commits.  Followed up to the
\* last but one run: the last run is left to end by itself
Interrupt ==
    /\ pc \in {"first", "retry"}
    /\ run < MaxRuns
    /\ disk' = Commit(DB)
    /\ DB' = DB
    /\ pc' = "exited"
    /\ Exit
    /\ UNCHANGED <<TG_TEST, call, remote, run, faults, suspended, passVars, tgVars>>

\* the process is killed: what was not committed is rolled back
Crash ==
    /\ pc \in {"first", "retry"}
    /\ run < MaxRuns
    /\ DB' = disk
    /\ pc' = "exited"
    /\ Exit
    /\ UNCHANGED <<disk, TG_TEST, call, remote, run, faults, suspended, passVars, tgVars>>

SyncNext ==
    \/ StartRun
    \/ Arrive
    \/ CallExportFor
    \/ HistoryAnswer
    \/ HistoryObject
    \/ HistoryText
    \/ HistoryRaises
    \/ Returned
    \/ Interrupt
    \/ Crash

Spec == SyncInit /\ [][SyncNext]_vars

(***************************************************************************)
(* Claims about export_for and export_text.  A call is clean when no fetch *)
(* of it raised or was answered oddly: faults = ef.faults0.                *)
(***************************************************************************)
AtReturn == pc \in {"first", "retry"} /\ ef.stage = "return"

CleanReturn == AtReturn /\ faults = ef.faults0

ItemKey == to_id(from_peer(ef.item))

(***************************************************************************)
(* C2, resume no-op: for a dialog with persisted cursor C > 0, force       *)
(* off, and a remote history in which every message is already in the      *)
(* ledger, export_for issues exactly one history fetch (the probe at       *)
(* offset 0), inserts 0 rows and leaves the dialog at cursor C.            *)
(***************************************************************************)
C2_ResumeNoOp ==
    (/\ CleanReturn
     /\ ef.pos0 = 0
     /\ ~force
     /\ ef.cursor0[1] > 0
     /\ ef.synced0) =>
        /\ ef.fetches = <<0>>
        /\ BagCardinality(DB.messages) = ef.rows0
        /\ Cursor(DB, ef.item) = ef.cursor0[1]

(***************************************************************************)
(* C3, resumability: when the previous run ended with the dialog's export  *)
(* failed at the persisted cursor C > 0, the next run's export of the      *)
(* dialog (force off) fetches at offset C and fetches no offset strictly   *)
(* between 0 and C.                                                        *)
(***************************************************************************)
C3_ResumesFromCursor ==
    (/\ CleanReturn
     /\ pc = "first"
     /\ ~force
     /\ ef.resume0 # <<>>
     /\ ef.resume0 = ef.cursor0
     /\ ef.cursor0[1] > 0) =>
        /\ ef.cursor0[1] \in Range(ef.fetches)
        /\ \A i \in 1..Len(ef.fetches) :
              ~(0 < ef.fetches[i] /\ ef.fetches[i] < ef.cursor0[1])

PassEnds == AtReturn /\ idx = PassLen

C5_FailureIsolated ==
    /\ []((AtReturn /\ ef.ret # <<>>) =>
            /\ ef.ret = <<ef.fetches[Len(ef.fetches)]>>
            /\ Cursor(DB, ef.item) >= ef.ret[1]
            /\ \A pid \in DOMAIN DB.peerinfo \ {ItemKey} :
                  /\ pid \in DOMAIN ef.info0
                  /\ DB.peerinfo[pid].finished = ef.info0[pid].finished)
    /\ [][(AtReturn /\ ef.ret # <<>> /\ pc' \in {"first", "retry"}) =>
            /\ DB' = DB
            /\ IF idx < PassLen
               THEN /\ pc' = pc /\ idx' = idx + 1 /\ dlist' = dlist /\ ef' = Idle
                    /\ Appending' = Append(Appending, <<ef.item, ef.ret[1]>>)
               ELSE /\ pc' = "retry" /\ idx' = 1
                    /\ failed' = Append(Appending, <<ef.item, ef.ret[1]>>)]_vars

\* the first dialog's fetch raised at the probe, the dialog is on the
\* retry list at offset 0, and the export of the next dialog is under way
C5_Witness ==
    /\ pc = "first"
    /\ idx = 2
    /\ failed = << <<dlist[1], 0>> >>
    /\ suspended[dlist[1]] = <<0>>
    /\ Fetching
    /\ ef.item = dlist[2]

(***************************************************************************)
(* C12: across the export_for calls for one peer within a sync pass        *)
(* (first attempt and retries, with or without force, ending normally or   *)
(* by error), the peer's cursor never decreases: every call leaves it at   *)
(* least where it found it.                                                *)
(***************************************************************************)
C12_CursorNeverDecreases ==
    AtReturn => Cursor(DB, ef.item) >= ef.cursor0[1]

(***************************************************************************)
(* The retry loop of export_text on its own: one command after the other,  *)
(* every fetch either answered with its page or raising, with no bound on  *)
(* how often a fetch raises.  The program always takes its next step.      *)
(***************************************************************************)
\* cmd_history raises, as often as the service makes it
HistoryFails ==
    /\ Fetching
    /\ Step(Raised(St(DB, PEER_CACHE), ef))
    /\ UNCHANGED <<disk, TG_TEST, call, remote, pc, run, force, dlist, idx,
                   failed, newlist, faults, suspended, passVars, tgVars>>

RetryNext ==
    \/ StartRun
    \/ CallExportFor
    \/ HistoryFails
    \/ HistoryAnswer
    \/ Returned

SpecRetry == SyncInit /\ [][RetryNext]_vars /\ WF_vars(RetryNext)

(***************************************************************************)
(* C6 as the specification states it: export_text terminates, also when    *)
(* some dialog's fetch fails on every attempt.                             *)
(***************************************************************************)
C6_Terminates == <>(pc = "done")

(***************************************************************************)
(* C6 as the code has it: the retry list is reprocessed until it is        *)
(* empty, with no bound on the number of passes: export_text finishes      *)
(* exactly when a pass leaves the retry list empty, and a pass that        *)
(* leaves failures is followed by another pass over exactly those.         *)
(***************************************************************************)
\* the retry list as the return at hand leaves it
Left ==
    IF ef.ret = <<>> THEN Appending
    ELSE Append(Appending, <<ef.item, ef.ret[1]>>)

C6_RetriesUntilEmpty ==
    /\ [][(pc # "done" /\ pc' = "done") => (PassEnds /\ Left = << >>)]_vars
    /\ [][(PassEnds /\ Left # << >>) =>
            (pc' = "retry" /\ failed' = Left /\ idx' = 1 /\ ef' = Idle)]_vars

\* a retry pass is about to end with a failure left
C6_Witness ==
    /\ pc = "retry"
    /\ PassEnds
    /\ ef.ret # <<>>
    /\ ef.pos0 = ef.ret[1]

(***************************************************************************)
(* The dialog enumeration of export_text, lines 444-451, one               *)
(* cmd_dialog_list at a time.  listing holds the locals dlist, items and   *)
(* dcount, the stage ("loop" while the while loop goes on, "done" after    *)
(* it) and pages, the pages answered so far.  Line 444 binds dlist, items  *)
(* and lastitems to one list object; items is rebound at line 447, dlist   *)
(* and lastitems never are, so lastitems is dlist, extended in place at    *)
(* line 450.                                                               *)
(***************************************************************************)
MaxListing == 3     \* cmd_dialog_list is answered at most MaxListing times
MaxPageLen == 2     \* a page of the listing holds at most MaxPageLen dialogs

ListingPages == UNION {[1..n -> Dialogs] : n \in 0..MaxPageLen}

\* d['id']
DialogId(d) == d.peer_id

\* frozenset(d['id'] for d in page)
IdSet(page) == {DialogId(page[i]) : i \in 1..Len(page)}

lastitems(l) == l.dlist

DialogsInit ==
    /\ DB = EmptyDB
    /\ disk = EmptyDB
    /\ PEER_CACHE = << >>
    /\ TG_TEST \in BOOLEAN
    /\ call = NoCall
    /\ EngineIdle
    /\ PassIdle
    /\ TgIdle

\* line 444-446: the first page, and the first test of the while loop
ListFirst ==
    /\ listing = Idle
    /\ \E page \in ListingPages :
        listing' = [stage |-> IF page # << >> THEN "loop" ELSE "done",
                    dlist |-> page, items |-> page, dcount |-> 100,
                    pages |-> <<page>>]
    /\ UNCHANGED <<DB, disk, PEER_CACHE, TG_TEST, call, engineVars, hp, queueVars, tgVars>>

\* lines 447-451 with the next page, then the test of line 446
NextPage(l, page) ==
    IF IdSet(page) = IdSet(lastitems(l))
    THEN [l EXCEPT !.stage = "done", !.items = page,
                   !.pages = Append(l.pages, page)]
    ELSE [stage |-> IF page # << >> THEN "loop" ELSE "done",
          dlist |-> l.dlist \o page, items |-> page,
          dcount |-> l.dcount + 100,
          pages |-> Append(l.pages, page)]

ListNext ==
    /\ listing # Idle
    /\ listing.stage = "loop"
    /\ Len(listing.pages) < MaxListing
    /\ \E page \in ListingPages : listing' = NextPage(listing, page)
    /\ UNCHANGED <<DB, disk, PEER_CACHE, TG_TEST, call, engineVars, hp, queueVars, tgVars>>

DialogsNext == ListFirst \/ ListNext

SpecDialogs == DialogsInit /\ [][DialogsNext]_vars

RECURSIVE Concat(_)
Concat(pages) ==
    IF pages = << >> THEN << >> ELSE Head(pages) \o Concat(Tail(pages))

(***************************************************************************)
(* C1: the enumeration stops at the first page whose id set equals the id  *)
(* set of the immediately preceding page: once such a page is answered,    *)
(* no further page is asked for and dlist holds the pages before it.       *)
(***************************************************************************)
C1_StopsAtRepeat ==
    listing # Idle =>
        \A n \in 2..Len(listing.pages) :
            IdSet(listing.pages[n]) = IdSet(listing.pages[n - 1]) =>
                /\ n = Len(listing.pages)
                /\ listing.stage = "done"
                /\ listing.dlist = Concat(SubSeq(listing.pages, 1, n - 1))

(***************************************************************************)
(* export_holes, one get_message at a time.  hp holds the locals holes, k  *)
(* (<<>> while unbound), failed and newlist, the stage ("first" and        *)
(* "retry" for the two loops, "done" after a normal return, "error" when   *)
(* an exception left export_holes, with its name in error), and what the   *)
(* call started from: the ledger (db0); lookups counts the get_message     *)
(* commands sent.  When export_holes ends, either way, the finally clause  *)
(* of main commits.                                                        *)
(***************************************************************************)
MaxHoleId == 3      \* the ledger the hole pass starts from holds ids 1..MaxHoleId

Chan9 == [peer_type |-> "channel", peer_id |-> 9, print_name |-> "ch9"]

\* lines 367-370
find_holes(minv, maxv, s) == {n \in minv..maxv : n \notin s}

SetMax(S) == CHOOSE x \in S : \A y \in S : y <= x

\* line 379: SELECT id FROM messages WHERE dest < 4<<32, integer ids only
GotSelf(messages) ==
    {r.id[1] : r \in {x \in BagToSet(messages) :
                        /\ x.id # <<>>
                        /\ x.dest # <<>>
                        /\ x.dest[1][1] < TGL_PEER_ENCR_CHAT}}

\* line 388: SELECT id FROM messages WHERE dest = channel.to_id()
GotChannel(messages, c) ==
    {r.id[1] : r \in {x \in BagToSet(messages) :
                        /\ x.id # <<>>
                        /\ x.dest = << <<TGL_PEER_CHANNEL, c>> >>}}

\* line 382: tgl_message_id_t(1, 0, n, 0) for the holes of got
SelfHoles(messages) ==
    {[peer_type |-> TGL_PEER_USER, peer_id |-> 0, id |-> n] :
        n \in find_holes(1, SetMax(GotSelf(messages)), GotSelf(messages))}

\* lines 387-390
ChannelHoles(db) ==
    UNION {{[peer_type |-> TGL_PEER_CHANNEL, peer_id |-> c, id |-> n] :
              n \in IF GotChannel(db.messages, c) = {} THEN {}
                    ELSE find_holes(1, SetMax(GotChannel(db.messages, c)),
                                    GotChannel(db.messages, c))} :
           c \in db.channels}

\* lines 398-401: msg.dumps() with the 'test' branch, msg.id otherwise
Mid(msg, tgtest) ==
    IF tgtest
    THEN [form |-> "hex", id |-> msg.id, peer_type |-> msg.peer_type,
          peer_id |-> msg.peer_id]
    ELSE [form |-> "int", id |-> msg.id]

\* the message the service holds under mid
GetMessage(mid) ==
    [event |-> "message", id |-> mid,
     from |-> Self,
     to |-> IF mid.form = "hex" /\ mid.peer_type = TGL_PEER_CHANNEL
            THEN Chan9 ELSE User5,
     text |-> "a", flags |-> 1]

NotExist == [result |-> "FAIL", error |-> "e"]

\* the ledger after log_msg of the messages ids of dialog item
RECURSIVE LogAll(_, _, _)
LogAll(st, item, ids) ==
    IF ids = {} THEN st
    ELSE LogAll(log_msg(st, HistMsg(item, SetMax(ids), FALSE)).st, item,
                ids \ {SetMax(ids)})

\* export_text has run and committed: some messages of a dialog and of a
\* channel are in the ledger
HolesInit ==
    /\ \E S5 \in SUBSET (1..MaxHoleId), S9 \in SUBSET (1..MaxHoleId) :
        /\ DB = DBof(LogAll(LogAll(St(EmptyDB, << >>), User5, S5), Chan9, S9))
        /\ PEER_CACHE = LogAll(LogAll(St(EmptyDB, << >>), User5, S5), Chan9, S9).cache
    /\ disk = DB
    /\ TG_TEST \in BOOLEAN
    /\ call = NoCall
    /\ EngineIdle
    /\ PassIdle
    /\ TgIdle

\* an exception leaves export_holes
Abort(h, name) == [h EXCEPT !.stage = "error", !.error = name]

\* lines 391-397 and 414: holes is bound; with no hole the for loop binds no k
Shuffled(db, hs) ==
    [stage |-> "first", holes |-> hs, k |-> <<>>, failed |-> << >>,
     newlist |-> << >>, error |-> "", lookups |-> 0, db0 |-> db]

\* lines 379-397
StartHoles ==
    /\ hp = Idle
    /\ IF GotSelf(DB.messages) = {}
       THEN hp' = Abort(Shuffled(DB, << >>), "UnboundLocalError")
       ELSE \E hs \in Perms(SelfHoles(DB.messages) \cup
                            (IF TG_TEST THEN ChannelHoles(DB) ELSE {})) :
               hp' = IF hs = << >>
                     THEN Abort(Shuffled(DB, hs), "UnboundLocalError")
                     ELSE Shuffled(DB, hs)
    /\ disk' = IF hp'.stage = "error" THEN Commit(DB) ELSE disk
    /\ UNCHANGED <<DB, PEER_CACHE, TG_TEST, call, engineVars, listing, queueVars, tgVars>>

\* the list the loop at hand goes through, and its current element as mid
Going(h) == IF h.stage = "first" THEN h.holes ELSE h.failed
Count(h) == IF h.k = <<>> THEN 0 ELSE h.k[1]
CurrentMid(h, tgtest) ==
    IF h.stage = "first" THEN Mid(h.holes[Count(h) + 1], tgtest)
    ELSE h.failed[Count(h) + 1]

\* lines 414-421 and 430-432 after the last element: while failed
EndLoop(h, left, shuffled) ==
    IF left # << >>
    THEN [h EXCEPT !.stage = "retry", !.failed = shuffled, !.newlist = << >>,
                   !.k = <<>>]
    ELSE [h EXCEPT !.stage = "done", !.failed = << >>]

\* one turn of the for loop at hand, the lookup raising or not
Turn(h, mid, raises) ==
    IF h.stage = "first"
    THEN IF raises THEN Abort(h, "AttributeError") ELSE h
    ELSE IF raises THEN [h EXCEPT !.newlist = Append(h.newlist, mid)] ELSE h

\* the for loop moves on, or ends
Advance(h) == [h EXCEPT !.k = <<Count(h) + 1>>, !.lookups = h.lookups + 1]

\* lines 397-413 and 422-429: get_message of the current id is answered
\* with the message ("found"), with a FAIL object ("fail"), or raises
Lookup ==
    /\ hp.stage \in {"first", "retry"}
    /\ \E outcome \in {"found", "fail", "raise"} :
        LET mid == CurrentMid(hp, TG_TEST)
            r == IF outcome = "found"
                 THEN process(St(DB, PEER_CACHE), [kind |-> "dict", obj |-> GetMessage(mid)])
                 ELSE process(St(DB, PEER_CACHE), [kind |-> "dict", obj |-> NotExist])
            h == Advance(Turn(hp, mid, outcome = "raise"))
        IN  /\ IF outcome = "raise" THEN UNCHANGED <<DB, PEER_CACHE>> ELSE Store(r.st)
            /\ call' = [op |-> "get_message", mid |-> mid, outcome |-> outcome,
                        stage |-> hp.stage]
            /\ IF h.stage # "error" /\ Count(h) = Len(Going(hp))
               THEN \E sh \in Perms(Range(IF hp.stage = "first" THEN h.failed
                                          ELSE h.newlist)) :
                       hp' = EndLoop(h, IF hp.stage = "first" THEN h.failed
                                        ELSE h.newlist, sh)
               ELSE hp' = h
    /\ disk' = IF hp'.stage \in {"done", "error"} THEN Commit(DB') ELSE disk
    /\ UNCHANGED <<TG_TEST, engineVars, listing, queueVars, tgVars>>

HolesNext == StartHoles \/ Lookup

SpecHoles == HolesInit /\ [][HolesNext]_vars

(***************************************************************************)
(* C7: in the first hole-filling pass, when the lookup of a hole id fails  *)
(* with an error other than 'does not exist' (it raises), the id is        *)
(* appended to the failed list and the pass is not aborted.                *)
(***************************************************************************)
C7_OtherErrorsQueued ==
    (/\ call.op = "get_message"
     /\ call.stage = "first"
     /\ call.outcome = "raise") =>
        /\ hp.stage # "error"
        /\ call.mid \in Range(hp.failed)

(***************************************************************************)
(* C8, fixed point: when export_holes starts from a ledger whose known     *)
(* ids are contiguous from 1 to the maximum in every namespace, it sends   *)
(* no get_message, writes nothing and returns normally.  Stated for a      *)
(* ledger that holds a message of the user's own namespace.                *)
(***************************************************************************)
C8_FixedPoint ==
    (/\ hp.stage \in {"done", "error"}
     /\ GotSelf(hp.db0.messages) # {}
     /\ SelfHoles(hp.db0.messages) = {}
     /\ ChannelHoles(hp.db0) = {}) =>
        /\ hp.stage = "done"
        /\ hp.lookups = 0
        /\ DB = hp.db0

(***************************************************************************)
(* C13, hole computation: with a channel-aware telegram-cli, the ids       *)
(* export_holes schedules for lookup are, for the namespace of the         *)
(* messages to users and group chats and for each known channel, exactly   *)
(* the n from 1 to the largest known id of the namespace that are not a    *)
(* known id of that namespace.                                             *)
(***************************************************************************)
\* the ids known in the ledger db for the destinations satisfying the test
KnownSelf(db) ==
    {r.id[1] : r \in {x \in BagToSet(db.messages) :
                        /\ x.id # <<>> /\ x.dest # <<>>
                        /\ x.dest[1][1] \in {TGL_PEER_USER, TGL_PEER_CHAT}}}

KnownOf(db, c) ==
    {r.id[1] : r \in {x \in BagToSet(db.messages) :
                        /\ x.id # <<>> /\ x.dest # <<>>
                        /\ x.dest[1] = <<TGL_PEER_CHANNEL, c>>}}

Missing(known) == {n \in 1..(MaxHoleId + 1) : n \notin known /\ \E m \in known : m > n}

ExpectedHoles(db) ==
    {[peer_type |-> TGL_PEER_USER, peer_id |-> 0, id |-> n] : n \in Missing(KnownSelf(db))}
    \cup UNION {{[peer_type |-> TGL_PEER_CHANNEL, peer_id |-> c, id |-> n] :
                    n \in Missing(KnownOf(db, c))} : c \in db.channels}

C13_HolesExact ==
    (hp # Idle /\ TG_TEST) =>
        /\ Range(hp.holes) = ExpectedHoles(hp.db0)
        /\ Len(hp.holes) = Cardinality(ExpectedHoles(hp.db0))

(***************************************************************************)
(* The retry loop of export_text when no dialog's export fails twice: a    *)
(* fetch raises only inside the first export_for call for its dialog; the  *)
(* retried call is answered at every fetch.  faults counts the calls that  *)
(* failed.                                                                 *)
(***************************************************************************)
\* cmd_history raises in a call for a dialog that has not failed before
FailsOnce ==
    /\ Fetching
    /\ suspended[ef.item] = <<>>
    /\ faults' = faults + 1
    /\ Step(Raised(St(DB, PEER_CACHE), ef))
    /\ UNCHANGED <<disk, TG_TEST, call, remote, pc, run, force, dlist, idx,
                   failed, newlist, suspended, passVars, tgVars>>

ConvergeNext ==
    \/ StartRun
    \/ CallExportFor
    \/ FailsOnce
    \/ HistoryAnswer
    \/ Returned

SpecConverge == SyncInit /\ [][ConvergeNext]_vars

(***************************************************************************)
(* C14, retry convergence: when every dialog's export fails once and       *)
(* succeeds on its next attempt, no dialog is queued again during a retry  *)
(* pass, so the retry list is empty after the first retry pass (within the *)
(* 2 the claim allows), and when export_text is done every dialog has      *)
(* returned normally and has its cursor set.                               *)
(***************************************************************************)
C14_Converges ==
    /\ pc = "retry" => newlist = << >>
    /\ pc = "done" =>
          \A d \in Dialogs : suspended[d] = <<>> /\ Cursor(DB, d) >= PageSize

\* the first run is done after the export of every dialog failed once
C14_Witness ==
    /\ pc = "done"
    /\ run = 1
    /\ faults = Cardinality(Dialogs)

(***************************************************************************)
(* The scenario of C16 at the scale of the model: a dialog with cursor     *)
(* C > 0 whose history is longer than C by at most one page, the ledger    *)
(* holding its newest messages down into the page at offset C but not to   *)
(* the end of that page; every fetch of the call has been answered with    *)
(* its page and the call has returned.  (250 messages of which the 240     *)
(* newest are known, cursor 200 and pages of 100 in the claim; the page    *)
(* after the one at C is at C + PageSize.)                                 *)
(***************************************************************************)
C16_Case ==
    /\ CleanReturn
    /\ ef.ret = <<>>
    /\ ef.cursor0[1] > 0
    /\ remote[ef.item] > ef.cursor0[1]
    /\ remote[ef.item] <= ef.cursor0[1] + PageSize
    /\ \E m \in ef.cursor0[1]..(remote[ef.item] - 1) :
          ef.got0 = (remote[ef.item] - m + 1)..remote[ef.item]

\* the ids of the dialog's rows
C16_Got == GotOf(DB.messages, ef.item)

\* the rows of the page are in the ledger, the page at the cursor is
\* followed by exactly one more page, and no id of the dialog is missing
C16_Pages ==
    /\ Synced(DB.messages, remote, ef.item)
    /\ BagCardinality(DB.messages) - ef.rows0 = remote[ef.item] - Cardinality(ef.got0)
    /\ Len(ef.pages) >= 2
    /\ ef.pages[Len(ef.pages) - 1] = ef.cursor0[1]
    /\ ef.pages[Len(ef.pages)] = ef.cursor0[1] + PageSize
    /\ find_holes(1, SetMax(C16_Got), C16_Got) = {}

(***************************************************************************)
(* C16 as the specification states it: in the scenario the engine inserts  *)
(* the new rows, fetches exactly one further page, and sets the cursor to  *)
(* the offset of that page (300); the hole pass finds no hole.             *)
(***************************************************************************)
C16_CursorAtLastPage ==
    C16_Case => (C16_Pages /\ Cursor(DB, ef.item) = ef.cursor0[1] + PageSize)

(***************************************************************************)
(* C16 as the code has it: the same, but the cursor is set to the offset   *)
(* after the further, empty page (400).                                    *)
(***************************************************************************)
C16_CursorPastLastPage ==
    C16_Case => (C16_Pages /\ Cursor(DB, ef.item) = ef.cursor0[1] + 2 * PageSize)

C16_Witness ==
    /\ C16_Case
    /\ ef.pos0 = ef.cursor0[1]
    /\ Cursor(DB, ef.item) = ef.cursor0[1] + 2 * PageSize

(***************************************************************************)
(* tgcli.py: send_command and _readline on the socket, next to the reader  *)
(* thread _run_cli.  Bytes are one-character strings.  The process's       *)
(* output on the socket is a stream of at most MaxLines lines: status      *)
(* lines 'ANSWER n', the payload line '[]', the empty line that ends an    *)
(* answer, a line of other output, and a line of text that begins with     *)
(* 'ANSWER '.  recv hands over any non-empty prefix of what is on its way. *)
(***************************************************************************)
MaxLines == 3
MaxSize == 3

NL == "\n"
Prefix == <<"A", "N", "S", "W", "E", "R", " ">>
Digits == <<"0", "1", "2", "3", "4", "5", "6", "7", "8", "9">>

StatusLine(n) == Prefix \o <<Digits[n + 1], NL>>
PayloadLine == <<"[", "]", NL>>
EmptyLine == <<NL>>
OtherLine == <<"N", "O", "T", "I", "C", "E", " ", "2", NL>>
\* a line of text that begins like a status line: 'ANSWER ]'
TextLine == Prefix \o <<"]", NL>>

WireLines ==
    {StatusLine(n) : n \in 0..MaxSize} \cup {PayloadLine, EmptyLine, OtherLine, TextLine}

RECURSIVE Flatten(_)
Flatten(ls) == IF ls = << >> THEN << >> ELSE Head(ls) \o Flatten(Tail(ls))

Streams == {Flatten(ls) : ls \in UNION {[1..n -> WireLines] : n \in 0..MaxLines}}

\* bytes.startswith
startswith(line, pre) ==
    Len(line) >= Len(pre) /\ SubSeq(line, 1, Len(pre)) = pre

\* line[7:]
From7(line) == SubSeq(line, Len(Prefix) + 1, Len(line))

IsSpace(c) == c \in {" ", NL}

RECURSIVE LStrip(_)
LStrip(b) == IF b # << >> /\ IsSpace(Head(b)) THEN LStrip(Tail(b)) ELSE b

RECURSIVE RStrip(_)
RStrip(b) ==
    IF b # << >> /\ IsSpace(b[Len(b)]) THEN RStrip(SubSeq(b, 1, Len(b) - 1)) ELSE b

strip(b) == RStrip(LStrip(b))

IsDigit(c) == \E i \in 1..10 : Digits[i] = c

DigitVal(c) == (CHOOSE i \in 1..10 : Digits[i] = c) - 1

RECURSIVE Decimal(_)
Decimal(b) ==
    IF b = << >> THEN 0
    ELSE 10 * Decimal(SubSeq(b, 1, Len(b) - 1)) + DigitVal(b[Len(b)])

\* int(text): <<n>>, or << >> for ValueError; surrounding whitespace is
\* ignored, what is left must be digits (no sign or underscore is on the wire)
int(b) ==
    IF strip(b) # << >> /\ \A i \in 1..Len(strip(b)) : IsDigit(strip(b)[i])
    THEN <<Decimal(strip(b))>>
    ELSE << >>

\* json.loads(ret): the empty list is the one JSON text on the wire
json_loads(b) ==
    IF strip(b) = <<"[", "]">> THEN [kind |-> "json", val |-> << >>]
    ELSE [kind |-> "text", val |-> b]

HasLine(b) == \E i \in 1..Len(b) : b[i] = NL

FirstNL(b) == CHOOSE i \in 1..Len(b) : b[i] = NL /\ \A j \in 1..(i - 1) : b[j] # NL

\* the interface after __init__ with run=True: the process runs, the socket
\* is connected, the reader thread has set ready
WireInit ==
    /\ DB = EmptyDB
    /\ disk = EmptyDB
    /\ PEER_CACHE = << >>
    /\ TG_TEST = FALSE
    /\ call = NoCall
    /\ EngineIdle
    /\ PassIdle
    /\ ready = TRUE
    /\ closed = FALSE
    /\ buffer = << >>
    /\ \E st \in Streams : sock = [wire |-> st, shut |-> FALSE, timed |-> FALSE]
    /\ proc = "running"
    /\ sc = Idle
    /\ SupIdle

WireFrame ==
    UNCHANGED <<DB, disk, PEER_CACHE, TG_TEST, call, engineVars, passVars, supVars,
                readerVars>>

\* send_command(cmd, resync=...) is called
SendCommand ==
    /\ sc = Idle
    /\ \E r \in BOOLEAN :
        sc' = [stage |-> "wait", resync |-> r, line |-> << >>, size |-> 0,
               reply |-> << >>, ret |-> << >>, error |-> "", follow |-> << >>,
               lost |-> FALSE, wire0 |-> buffer \o sock.wire]
    /\ UNCHANGED <<ready, closed, buffer, sock, proc>>
    /\ WireFrame

\* lines 196-198: ready.wait() has returned; settimeout; sendall, which
\* raises on a socket that has been shut down
Send ==
    /\ sc.stage = "wait"
    /\ ready
    /\ IF sock.shut
       THEN /\ sc' = [sc EXCEPT !.stage = "raised", !.error = "OSError"]
            /\ UNCHANGED sock
       ELSE /\ sc' = [sc EXCEPT !.stage = "status_rl"]
            /\ sock' = [sock EXCEPT !.timed = TRUE]
    /\ UNCHANGED <<ready, closed, buffer, proc>>
    /\ WireFrame

InReadline == sc.stage \in {"status_rl", "payload_rl"}

\* _readline returns line to line 199/201 or to line 205
Deliver(line) ==
    IF sc.stage = "status_rl"
    THEN [sc EXCEPT !.stage = "status_ck", !.line = line,
                    !.lost = sc.lost \/ ~ready]
    ELSE [sc EXCEPT !.stage = "payload_ck", !.reply = sc.reply \o line,
                    !.lost = sc.lost \/ ~ready]

\* _readline without the buffer: what one recv returns is handed on as a line
ReadLine_chunks ==
    /\ InReadline
    /\ IF ~ready
       THEN /\ sc' = Deliver(<< >>)
            /\ UNCHANGED <<buffer, sock>>
       ELSE /\ sock.wire # << >>
            /\ \E k \in 1..Len(sock.wire) :
                /\ sc' = Deliver(SubSeq(sock.wire, 1, k))
                /\ sock' = [sock EXCEPT !.wire = SubSeq(sock.wire, k + 1, Len(sock.wire))]
            /\ UNCHANGED buffer
    /\ UNCHANGED <<ready, closed, proc>>
    /\ WireFrame

\* lines 182-189, one turn of the loop of _readline: b'' once ready is
\* cleared, else the first line of the buffer, else the buffer grows by what
\* recv returns
ReadLine ==
    /\ InReadline
    /\ IF ~ready
       THEN /\ sc' = Deliver(<< >>)
            /\ UNCHANGED <<buffer, sock>>
       ELSE IF HasLine(buffer)
       THEN /\ sc' = Deliver(SubSeq(buffer, 1, FirstNL(buffer)))
            /\ buffer' = SubSeq(buffer, FirstNL(buffer) + 1, Len(buffer))
            /\ UNCHANGED sock
       ELSE /\ sock.wire # << >>
            /\ \E k \in 1..Len(sock.wire) :
                /\ buffer' = buffer \o SubSeq(sock.wire, 1, k)
                /\ sock' = [sock EXCEPT !.wire = SubSeq(sock.wire, k + 1, Len(sock.wire))]
            /\ UNCHANGED sc
    /\ UNCHANGED <<ready, closed, proc>>
    /\ WireFrame

\* recv on the socket the timeout was set on raises socket.timeout when
\* nothing arrives
RecvTimeout ==
    /\ InReadline
    /\ ready
    /\ ~HasLine(buffer)
    /\ sock.wire = << >>
    /\ ~sock.shut
    /\ sock.timed
    /\ sc' = [sc EXCEPT !.stage = "raised", !.error = "timeout"]
    /\ UNCHANGED <<ready, closed, buffer, sock, proc>>
    /\ WireFrame

\* lines 200-203: the test of the resync loop, then size = int(line[7:])
CheckStatus ==
    /\ sc.stage = "status_ck"
    /\ IF sc.resync /\ ~startswith(sc.line, Prefix) /\ ready
       THEN sc' = [sc EXCEPT !.stage = "status_rl"]
       ELSE IF int(From7(sc.line)) = << >>
       THEN sc' = [sc EXCEPT !.stage = "raised", !.error = "ValueError"]
       ELSE sc' = [sc EXCEPT !.stage = "payload_ck",
                             !.size = int(From7(sc.line))[1],
                             !.follow = buffer \o sock.wire]
    /\ UNCHANGED <<ready, closed, buffer, sock, proc>>
    /\ WireFrame

\* lines 204-210: the test of the payload loop, then the return
CheckPayload ==
    /\ sc.stage = "payload_ck"
    /\ IF ready /\ Len(sc.reply) < sc.size
       THEN sc' = [sc EXCEPT !.stage = "payload_rl"]
       ELSE sc' = [sc EXCEPT !.stage = "returned", !.ret = <<json_loads(sc.reply)>>,
                             !.lost = sc.lost \/ ~ready]
    /\ UNCHANGED <<ready, closed, buffer, sock, proc>>
    /\ WireFrame

\* lines 118-120 and 134-138: the process has ended, its stdout is at end
\* of file, and the finally clause shuts the socket down; what was on its
\* way may or may not still be readable
Die ==
    /\ proc = "running"
    /\ \E w \in {sock.wire, << >>} :
        sock' = [sock EXCEPT !.shut = TRUE, !.wire = w]
    /\ proc' = "shutdown"
    /\ UNCHANGED <<ready, closed, buffer, sc>>
    /\ WireFrame

\* lines 139-140
ClearReady ==
    /\ proc = "shutdown"
    /\ ready' = FALSE
    /\ proc' = "cleared"
    /\ UNCHANGED <<closed, buffer, sock, sc>>
    /\ WireFrame

\* lines 114-115, 96-111 and 121-123: a new process, a new socket (without
\* the timeout of the old one), and ready set at its first line of output
Respawn ==
    /\ proc = "cleared"
    /\ ~closed
    /\ sock' = [wire |-> << >>, shut |-> FALSE, timed |-> FALSE]
    /\ ready' = TRUE
    /\ proc' = "respawned"
    /\ UNCHANGED <<closed, buffer, sc>>
    /\ WireFrame

\* lines 154-167: close(); the process is gone, the reader thread shuts the
\* socket down and ends
Close ==
    /\ ~closed
    /\ closed' = TRUE
    /\ ready' = FALSE
    /\ sock' = [sock EXCEPT !.shut = TRUE]
    /\ proc' = "stopped"
    /\ UNCHANGED <<buffer, sc>>
    /\ WireFrame

\* the steps of the thread that called send_command
CommandStep ==
    \/ Send
    \/ ReadLine
    \/ RecvTimeout
    \/ CheckStatus
    \/ CheckPayload

WireNext ==
    \/ SendCommand
    \/ CommandStep
    \/ Die
    \/ ClearReady
    \/ Respawn
    \/ Close

SpecWire == WireInit /\ [][WireNext]_vars

\* the calling thread and the reader thread keep running, and a timeout
\* that is due is raised
SpecWireFair == SpecWire /\ WF_vars(CommandStep) /\ WF_vars(ClearReady)

\* a well-formed status line: 'ANSWER ', one or more digits, newline
IsStatusLine(line) ==
    /\ startswith(line, Prefix)
    /\ Len(line) >= Len(Prefix) + 2
    /\ line[Len(line)] = NL
    /\ \A i \in (Len(Prefix) + 1)..(Len(line) - 1) : IsDigit(line[i])

(***************************************************************************)
(* C17, answer framing: when send_command returns after the status line    *)
(* 'ANSWER N', with the process alive throughout, the payload it returns   *)
(* is exactly the N bytes that followed the status line: no byte after     *)
(* the N-th is part of it.                                                 *)
(***************************************************************************)
C17_ExactPayload ==
    (/\ sc.stage = "returned"
     /\ proc = "running"
     /\ IsStatusLine(sc.line)) =>
        /\ Len(sc.follow) >= sc.size
        /\ sc.reply = SubSeq(sc.follow, 1, sc.size)

(***************************************************************************)
(* C18: send_command never returns a truncated or empty payload as if it   *)
(* were the answer: when it returns, it has read a status line and at      *)
(* least the number of bytes that line announced; a connection lost before *)
(* that makes it raise.                                                    *)
(***************************************************************************)
C18_NoTruncatedAnswer ==
    sc.stage = "returned" =>
        /\ sc.line # << >>
        /\ Len(sc.reply) >= sc.size

(***************************************************************************)
(* C19: every send_command call eventually returns or raises; it never     *)
(* blocks or spins for ever, also when the process has died or the         *)
(* interface has been closed.                                              *)
(***************************************************************************)
C19_ReturnsOrFails ==
    (sc.stage = "wait") ~> (sc.stage \in {"returned", "raised"})

(***************************************************************************)
(* C20, strict mode: with resync=False, send_command takes a payload       *)
(* length only from a well-formed 'ANSWER <N>' status line; any other      *)
(* first line makes it raise.                                              *)
(***************************************************************************)
C20_StrictStatus ==
    (/\ sc.stage \in {"payload_ck", "payload_rl", "returned"}
     /\ ~sc.resync) =>
        IsStatusLine(sc.line)

(***************************************************************************)
(* C21, resync mode: with resync=True and the process alive, send_command  *)
(* raises no error on a leading line that is not a well-formed status      *)
(* line, and takes the payload length only from a well-formed              *)
(* 'ANSWER <N>' line.                                                      *)
(***************************************************************************)
C21_ResyncDiscards ==
    (/\ sc.stage # "idle"
     /\ sc.resync
     /\ proc = "running") =>
        /\ sc.error # "ValueError"
        /\ sc.stage \in {"payload_ck", "payload_rl", "returned"} => IsStatusLine(sc.line)

(***************************************************************************)
(* tgcli.py: the reader thread _run_cli with checkproc, the child          *)
(* processes, and close().  proc is the line the reader thread is at;      *)
(* popen[i] is "starting" (no socket file yet), "listening" or "exited".   *)
(* At most MaxSpawns processes are started.                                *)
(***************************************************************************)
MaxSpawns == 3

NewSock == [wire |-> << >>, shut |-> FALSE, timed |-> FALSE]

Alive(i) == i # 0 /\ popen[i] # "exited"

\* __init__ with run=False: the directory exists, nothing has been started
SupInit ==
    /\ DB = EmptyDB
    /\ disk = EmptyDB
    /\ PEER_CACHE = << >>
    /\ TG_TEST = FALSE
    /\ call = NoCall
    /\ EngineIdle
    /\ PassIdle
    /\ ready = FALSE
    /\ closed = FALSE
    /\ buffer = << >>
    /\ sock = Idle
    /\ proc = "none"
    /\ sc = Idle
    /\ popen = << >>
    /\ selfproc = 0
    /\ tmpdir = "present"
    /\ sockfile = FALSE
    /\ cl = Idle
    /\ stdout = << >>
    /\ log = Idle

SupFrame ==
    UNCHANGED <<DB, disk, PEER_CACHE, TG_TEST, call, engineVars, passVars, buffer, sc,
                readerVars>>

\* lines 142-146: run() starts the thread
Run ==
    /\ proc = "none"
    /\ cl = Idle
    /\ proc' = "top"
    /\ UNCHANGED <<ready, closed, sock, supVars>>
    /\ SupFrame

\* line 114: while not self.closed
Top ==
    /\ proc = "top"
    /\ proc' = IF closed THEN "ended" ELSE "checkproc"
    /\ UNCHANGED <<ready, closed, sock, supVars>>
    /\ SupFrame

\* lines 97-101: return self.proc when closed or when the process runs,
\* else remove the old socket file
CheckProc ==
    /\ proc = "checkproc"
    /\ IF closed \/ Alive(selfproc)
       THEN proc' = "read" /\ UNCHANGED sockfile
       ELSE proc' = "spawn" /\ sockfile' = FALSE
    /\ UNCHANGED <<ready, closed, sock, popen, selfproc, tmpdir, cl>>
    /\ SupFrame

\* lines 102-106: self.proc = subprocess.Popen(...)
Spawn ==
    /\ proc = "spawn"
    /\ Len(popen) < MaxSpawns
    /\ popen' = Append(popen, "starting")
    /\ selfproc' = Len(popen) + 1
    /\ proc' = "poll"
    /\ UNCHANGED <<ready, closed, sock, tmpdir, sockfile, cl>>
    /\ SupFrame

\* lines 107-108: the loop ends once the socket file exists
Poll ==
    /\ proc = "poll"
    /\ sockfile
    /\ proc' = "connect"
    /\ UNCHANGED <<ready, closed, sock, supVars>>
    /\ SupFrame

\* lines 109-111: a new socket object, then connect, which raises when
\* nothing listens; the exception leaves _run_cli
Connect ==
    /\ proc = "connect"
    /\ sock' = NewSock
    /\ proc' = IF sockfile /\ popen[selfproc] = "listening" THEN "read" ELSE "ended"
    /\ UNCHANGED <<ready, closed, supVars>>
    /\ SupFrame

\* line 117: while not self.closed, then the thread blocks in readline
ReadTest ==
    /\ proc = "read"
    /\ proc' = IF closed THEN "finally" ELSE "readline"
    /\ UNCHANGED <<ready, closed, sock, supVars>>
    /\ SupFrame

\* lines 118-131: a line of output sets ready; end of file leaves the loop
ReadOut ==
    /\ proc = "readline"
    /\ IF Alive(selfproc)
       THEN ready' = TRUE /\ proc' = "read"
       ELSE proc' = "finally" /\ UNCHANGED ready
    /\ UNCHANGED <<closed, sock, supVars>>
    /\ SupFrame

\* lines 134-138: shutdown of self.sock (AttributeError when it is None),
\* then terminate and wait for a process that still runs
Finally ==
    /\ proc = "finally"
    /\ IF sock = Idle
       THEN proc' = "ended" /\ UNCHANGED <<sock, popen>>
       ELSE /\ sock' = [sock EXCEPT !.shut = TRUE]
            /\ popen' = IF Alive(selfproc)
                        THEN [popen EXCEPT ![selfproc] = "exited"]
                        ELSE popen
            /\ proc' = "clear"
    /\ UNCHANGED <<ready, closed, selfproc, tmpdir, sockfile, cl>>
    /\ SupFrame

\* lines 139-140
Clear ==
    /\ proc = "clear"
    /\ ready' = FALSE
    /\ proc' = "top"
    /\ UNCHANGED <<closed, sock, supVars>>
    /\ SupFrame

\* a started telegram-cli creates its socket file
ChildListen ==
    /\ tmpdir = "present"
    /\ \E i \in 1..Len(popen) :
        /\ popen[i] = "starting"
        /\ popen' = [popen EXCEPT ![i] = "listening"]
    /\ sockfile' = TRUE
    /\ UNCHANGED <<ready, closed, sock, proc, selfproc, tmpdir, cl>>
    /\ SupFrame

\* telegram-cli ends on its own
ChildExit ==
    /\ \E i \in 1..Len(popen) :
        /\ popen[i] # "exited"
        /\ popen' = [popen EXCEPT ![i] = "exited"]
    /\ UNCHANGED <<ready, closed, sock, proc, selfproc, tmpdir, sockfile, cl>>
    /\ SupFrame

\* lines 154-158
CloseCall ==
    /\ cl = Idle
    /\ cl' = [stage |-> "wait"]
    /\ closed' = TRUE
    /\ ready' = FALSE
    /\ UNCHANGED <<sock, proc, popen, selfproc, tmpdir, sockfile>>
    /\ SupFrame

\* lines 159-162: self.proc.wait(2), AttributeError when self.proc is None;
\* a process that has not ended by then is killed
CloseWait ==
    /\ cl.stage = "wait"
    /\ IF selfproc = 0
       THEN cl' = [stage |-> "raised"] /\ UNCHANGED popen
       ELSE /\ cl' = [stage |-> "join"]
            /\ popen' = [popen EXCEPT ![selfproc] = "exited"]
    /\ UNCHANGED <<ready, closed, sock, proc, selfproc, tmpdir, sockfile>>
    /\ SupFrame

\* lines 163-164: self.thread.join(1) returns after a second at the latest
CloseJoin ==
    /\ cl.stage = "join"
    /\ cl' = [stage |-> "rmtree"]
    /\ UNCHANGED <<ready, closed, sock, proc, popen, selfproc, tmpdir, sockfile>>
    /\ SupFrame

\* lines 165-167
CloseRmtree ==
    /\ cl.stage = "rmtree"
    /\ cl' = [stage |-> "returned"]
    /\ tmpdir' = "removed"
    /\ sockfile' = FALSE
    /\ UNCHANGED <<ready, closed, sock, proc, popen, selfproc>>
    /\ SupFrame

\* the steps of the reader thread
ReaderStep ==
    \/ Top
    \/ CheckProc
    \/ Spawn
    \/ Poll
    \/ Connect
    \/ ReadTest
    \/ ReadOut
    \/ Finally
    \/ Clear

\* the steps of close()
CloseStep ==
    \/ CloseCall
    \/ CloseWait
    \/ CloseJoin
    \/ CloseRmtree

SupNext ==
    \/ Run
    \/ ReaderStep
    \/ ChildListen
    \/ ChildExit
    \/ CloseStep

SpecSuper == SupInit /\ [][SupNext]_vars

\* the reader thread keeps running, close() once called runs to its end, and
\* a started process creates its socket file unless it ends first
SpecSuperFair ==
    SpecSuper /\ WF_vars(ReaderStep) /\ WF_vars(CloseWait \/ CloseJoin \/ CloseRmtree)
              /\ WF_vars(ChildListen)

(***************************************************************************)
(* C22: once close() has returned or raised, no child process runs and     *)
(* the temporary directory is gone, whatever the reader thread was doing.  *)
(***************************************************************************)
C22_NothingLeftBehind ==
    cl.stage \in {"returned", "raised"} =>
        /\ \A i \in 1..Len(popen) : popen[i] = "exited"
        /\ tmpdir = "removed"

(***************************************************************************)
(* C23: while the interface is not closed, after the child process has     *)
(* exited the reader thread eventually has a new running process, a        *)
(* connected socket and the ready flag set again (unless close() is called *)
(* or MaxSpawns processes have been started).                              *)
(***************************************************************************)
C23_Respawns ==
    (/\ ~closed
     /\ selfproc # 0
     /\ popen[selfproc] = "exited"
     /\ Len(popen) < MaxSpawns)
        ~> \/ closed
           \/ Len(popen) = MaxSpawns
           \/ /\ ready
              /\ Alive(selfproc)
              /\ proc \in {"read", "readline"}
              /\ ~sock.shut

(***************************************************************************)
(* C24: starting is bounded: checkproc, once it polls for the socket file, *)
(* always leaves the polling loop, with the file found or with a failure.  *)
(***************************************************************************)
C24_PollEnds == (proc = "poll") ~> (proc # "poll")

(***************************************************************************)
(* C25: while a command is in flight (send_command has been called and has *)
(* neither returned nor raised), the reader thread takes no step that      *)
(* shuts down or replaces the socket send_command uses.                    *)
(***************************************************************************)
InFlight == sc.stage \notin {"idle", "returned", "raised"}

C25_ReaderKeepsOff == [][InFlight => ~(Die \/ Respawn)]_vars

(***************************************************************************)
(* export.py: the queue MSG_Q between the reader thread (on_json is        *)
(* MSG_Q.put) and purge_queue, which main's thread calls after each        *)
(* dialog of export_text and in main's finally clause.  export_for itself  *)
(* is left out here: pc is "first" during the pass, idx counts the dialogs *)
(* done.  An event on the queue is [n, obj] with n its number of arrival.  *)
(***************************************************************************)
MaxEvents == 3
MaxSteps == 2

PushEvents ==
    { [event |-> "online-status", user |-> User5],
      [event |-> "online-status", user |-> [User5 EXCEPT !.print_name = "u5b"]],
      [event |-> "online-status"],
      [event |-> "message", id |-> [form |-> "int", id |-> 1], from |-> User6,
       to |-> User5, text |-> "a", flags |-> 1] }

QueueInit ==
    /\ DB = EmptyDB
    /\ disk = EmptyDB
    /\ PEER_CACHE = << >>
    /\ TG_TEST = FALSE
    /\ call = NoCall
    /\ remote = << >>
    /\ pc = "first"
    /\ run = 1
    /\ force = FALSE
    /\ dlist = << >>
    /\ idx = 0
    /\ failed = << >>
    /\ newlist = << >>
    /\ ef = Idle
    /\ faults = 0
    /\ suspended = << >>
    /\ listing = Idle
    /\ hp = Idle
    /\ QueueIdle
    /\ TgIdle

QueueFrame ==
    UNCHANGED <<TG_TEST, remote, run, force, dlist, failed, newlist, ef,
                faults, suspended, listing, hp, ready, buffer, sock, proc, sc, supVars,
                readerVars>>

\* tgcli.py:125-127: the reader thread hands a JSON line to on_json
Put ==
    /\ ~closed
    /\ puts < MaxEvents
    /\ \E obj \in PushEvents :
        MSG_Q' = Append(MSG_Q, [n |-> puts + 1, obj |-> obj])
    /\ puts' = puts + 1
    /\ UNCHANGED <<DB, disk, PEER_CACHE, call, pc, idx, closed, got, pq>>
    /\ QueueFrame

\* export.py:459-463: the next dialog is done and purge_queue is called
PurgeCall ==
    /\ pc = "first"
    /\ pq.stage \in {"idle", "returned"}
    /\ idx < MaxSteps
    /\ idx' = idx + 1
    /\ pq' = [stage |-> "loop", start |-> puts]
    /\ UNCHANGED <<DB, disk, PEER_CACHE, call, pc, closed, MSG_Q, puts, got>>
    /\ QueueFrame

\* lines 291-292: process is called on the event taken; call and got record it
PurgeGot(r, e) ==
    /\ DB' = DBof(r.st)
    /\ PEER_CACHE' = r.st.cache
    /\ call' = [op |-> "purge", obj |-> e.obj, n |-> e.n]
    /\ got' = Append(got, e.n)
    /\ MSG_Q' = Tail(MSG_Q)
    /\ pq' = [pq EXCEPT !.stage = IF r.raised THEN "raised" ELSE "loop"]

\* lines 289-293: one turn of the loop: queue.Empty ends it, an
\* exception of process leaves purge_queue
PurgeGet ==
    /\ pq.stage = "loop"
    /\ IF MSG_Q = << >>
       THEN /\ pq' = [pq EXCEPT !.stage = "returned"]
            /\ UNCHANGED <<DB, PEER_CACHE, call, MSG_Q, got>>
       ELSE PurgeGot(process(St(DB, PEER_CACHE), [kind |-> "dict", obj |-> Head(MSG_Q).obj]),
                     Head(MSG_Q))
    /\ UNCHANGED <<disk, pc, idx, closed, puts>>
    /\ QueueFrame

\* line 464: the pass is through, DB.commit(); or the exception of
\* purge_queue leaves export_text; main's finally clause is next
PassOver ==
    /\ pc = "first"
    /\ \/ /\ pq.stage \in {"idle", "returned"}
          /\ idx = MaxSteps
          /\ disk' = DB
       \/ /\ pq.stage = "raised"
          /\ UNCHANGED disk
    /\ pc' = "finally"
    /\ UNCHANGED <<DB, PEER_CACHE, call, idx, closed, queueVars>>
    /\ QueueFrame

\* lines 527-529: TGCLI.close(), after which the reader thread puts nothing,
\* and purge_queue is called
MainFinally ==
    /\ pc = "finally"
    /\ ~closed
    /\ closed' = TRUE
    /\ pq' = [stage |-> "loop", start |-> puts]
    /\ UNCHANGED <<DB, disk, PEER_CACHE, call, pc, idx, MSG_Q, puts, got>>
    /\ QueueFrame

\* line 530: DB.commit() unless purge_queue raised
MainExit ==
    /\ pc = "finally"
    /\ closed
    /\ \/ pq.stage = "returned" /\ disk' = DB
       \/ pq.stage = "raised" /\ UNCHANGED disk
    /\ pc' = "exited"
    /\ UNCHANGED <<DB, PEER_CACHE, call, idx, closed, queueVars>>
    /\ QueueFrame

QueueNext ==
    \/ Put
    \/ PurgeCall
    \/ PurgeGet
    \/ PassOver
    \/ MainFinally
    \/ MainExit

SpecQueue == QueueInit /\ [][QueueNext]_vars

\* the numbers of the events of a queue, in order
Numbers(q) == [i \in 1..Len(q) |-> q[i].n]

(***************************************************************************)
(* C26: the events are processed exactly once and in the order of their    *)
(* arrival; when purge_queue has returned, no event that was on the queue  *)
(* when it was called is still there; and when main is through, every      *)
(* event put has been processed.                                           *)
(***************************************************************************)
C26_ExactlyOnceInOrder ==
    /\ got \o Numbers(MSG_Q) = [i \in 1..puts |-> i]
    /\ pq.stage = "returned" => \A i \in 1..Len(MSG_Q) : MSG_Q[i].n > pq.start
    /\ pc = "exited" => MSG_Q = << >>

(***************************************************************************)
(* C27: an event whose processing raises is dropped: purge_queue itself    *)
(* does not raise, it goes on with the events that remain.                 *)
(***************************************************************************)
C27_PurgeGoesOn == pq.stage # "raised"

(***************************************************************************)
(* C28: after update_peer has been called on a peer, the peerinfo row of   *)
(* the peer holds the print_name the call was given, whether or not the    *)
(* peer's key was in the LRU cache.                                        *)
(***************************************************************************)
C28_NameStored ==
    (call.op = "purge" /\ "user" \in DOMAIN call.obj) =>
        LET pid == to_id(from_peer(call.obj.user))
        IN  /\ pid \in DOMAIN DB.peerinfo
            /\ DB.peerinfo[pid].print_name = call.obj.user.print_name

(***************************************************************************)
(* C29: when main is interrupted while export_for fetches the history of   *)
(* a dialog, the committed cursor of that dialog is not below the offset   *)
(* the fetch had reached.                                                  *)
(***************************************************************************)
C29_InterruptStoresCursor ==
    [][(Interrupt /\ Fetching /\ ef.pos > 0) => Cursor(disk', ef.item) >= ef.pos]_vars

(***************************************************************************)
(* logfmt.py PeerStore._convert and dbconvert.py convert_peerid1 and       *)
(* convert_peerid2.  A Python integer is [neg, mag]: its sign and its      *)
(* magnitude as bytes, least significant first, without leading zero       *)
(* bytes, so that keys wider than 32 bits keep every bit.  A text is a     *)
(* sequence of characters.  Keys of the forms 'type#idN' and (id, type)    *)
(* are not offered.                                                        *)
(***************************************************************************)
MaxLow == 1

RECURSIVE Norm(_)
Norm(m) ==
    IF m = << >> THEN << >>
    ELSE IF m[Len(m)] = 0 THEN Norm(SubSeq(m, 1, Len(m) - 1))
    ELSE m

PyInt(neg, m) == [neg |-> neg /\ Norm(m) # << >>, mag |-> Norm(m)]

Small(n) == PyInt(FALSE, <<n>>)

\* the magnitude padded with zero bytes to n bytes
Pad(m, n) == [i \in 1..n |-> IF i <= Len(m) THEN m[i] ELSE 0]

\* two's complement of n bytes: every byte inverted, then one added
RECURSIVE AddOne(_)
AddOne(b) ==
    IF b = << >> THEN << >>
    ELSE IF b[1] = 255 THEN <<0>> \o AddOne(Tail(b))
    ELSE <<b[1] + 1>> \o Tail(b)

TwoC(b) == AddOne([i \in 1..Len(b) |-> 255 - b[i]])

\* struct.pack of one signed field of n bytes, little endian
pack(x, n) == IF x.neg THEN TwoC(Pad(x.mag, n)) ELSE Pad(x.mag, n)

\* struct.unpack of one signed field
unpack(b) == IF b[Len(b)] >= 128 THEN PyInt(TRUE, TwoC(b)) ELSE PyInt(FALSE, b)

HexChars == <<"0", "1", "2", "3", "4", "5", "6", "7", "8", "9",
              "a", "b", "c", "d", "e", "f">>

HexVal(c) == (CHOOSE i \in 1..16 : HexChars[i] = c) - 1

b2a_hex(b) ==
    [i \in 1..(2 * Len(b)) |->
        IF i % 2 = 1 THEN HexChars[(b[(i + 1) \div 2] \div 16) + 1]
        ELSE HexChars[(b[i \div 2] % 16) + 1]]

a2b_hex(t) ==
    [i \in 1..(Len(t) \div 2) |-> 16 * HexVal(t[2 * i - 1]) + HexVal(t[2 * i])]

RECURSIVE lstrip_dollar(_)
lstrip_dollar(t) ==
    IF t # << >> /\ t[1] = "$" THEN lstrip_dollar(Tail(t)) ELSE t

\* tgl_peer_id_t.dumps: '$' and the hex of struct.pack('<iiq', ...)
dumps(p) ==
    <<"$">> \o b2a_hex(pack(p.peer_type, 4) \o pack(p.peer_id, 4) \o pack(p.access_hash, 8))

\* tgl_peer_id_t.loads
LoadsBytes(b) ==
    [peer_type |-> unpack(SubSeq(b, 1, 4)),
     peer_id |-> unpack(SubSeq(b, 5, 8)),
     access_hash |-> unpack(SubSeq(b, 9, 16))]

loads(t) == LoadsBytes(a2b_hex(lstrip_dollar(t)))

\* tgl_peer_id_t.to_id: peer_type<<32 | peer_id; with a negative peer_id
\* every bit from bit 32 up is already set
ToId(p) ==
    IF p.peer_id.neg THEN p.peer_id
    ELSE PyInt(FALSE, Pad(p.peer_id.mag, 4) \o p.peer_type.mag)

convert_peerid1(peerid) ==
    ToId([peer_type |-> IF peerid.neg THEN Small(TGL_PEER_CHAT) ELSE Small(TGL_PEER_USER),
          peer_id |-> PyInt(FALSE, peerid.mag),
          access_hash |-> Small(0)])

convert_peerid2(peerid) == ToId(loads(peerid))

\* peerid > 4294967296
Above2p32(v) == ~v.neg /\ Len(v.mag) >= 5 /\ v.mag # <<0, 0, 0, 0, 1>>

\* the last if chain of _convert: the name of the type, None without one
TypeName(peer_id, peer_type) ==
    IF peer_type = Small(TGL_PEER_USER) THEN <<[id |-> peer_id, type |-> "user"]>>
    ELSE IF peer_type = Small(TGL_PEER_CHAT) THEN <<[id |-> peer_id, type |-> "chat"]>>
    ELSE IF peer_type = Small(TGL_PEER_ENCR_CHAT)
    THEN <<[id |-> peer_id, type |-> "encr_chat"]>>
    ELSE IF peer_type = Small(TGL_PEER_CHANNEL)
    THEN <<[id |-> peer_id, type |-> "channel"]>>
    ELSE << >>

ConvertLoaded(peer) == TypeName(peer.peer_id, peer.peer_type)

\* _convert(key) for an integer or a text without '#id'
convert(key) ==
    IF key.form = "str" THEN ConvertLoaded(loads(key.v))
    ELSE IF Above2p32(key.v)
    THEN TypeName(PyInt(FALSE, SubSeq(key.v.mag, 1, 4)),
                  PyInt(FALSE, SubSeq(key.v.mag, 5, Len(key.v.mag))))
    ELSE TypeName(PyInt(FALSE, key.v.mag),
                  IF key.v.neg THEN Small(TGL_PEER_CHAT) ELSE Small(TGL_PEER_USER))

\* the ids offered: 32-bit, not negative, with bytes at both ends of the range
LowBytes == 0..MaxLow \cup {255}
TopBytes == 0..MaxLow \cup {127}
PeerIds == {PyInt(FALSE, <<a, b, c, d>>) : a \in LowBytes, b \in {0, 255}, c \in {0, 255},
                                          d \in TopBytes}

TypeNo(name) ==
    CASE name = "user" -> TGL_PEER_USER
      [] name = "chat" -> TGL_PEER_CHAT
      [] name = "encr_chat" -> TGL_PEER_ENCR_CHAT
      [] name = "channel" -> TGL_PEER_CHANNEL

PeerOf(name, id) == [peer_type |-> Small(TypeNo(name)), peer_id |-> id, access_hash |-> Small(0)]

\* the three forms of the key of a peer
KeyOf(form, name, id) ==
    CASE form = "canonical" -> [form |-> "int", v |-> ToId(PeerOf(name, id))]
      [] form = "hex" -> [form |-> "str", v |-> dumps(PeerOf(name, id))]
      [] form = "legacy" -> [form |-> "int", v |-> PyInt(name = "chat", id.mag)]

\* what dbconvert makes of the key: the canonical key as it is
Encoded(form, key) ==
    CASE form = "canonical" -> key.v
      [] form = "hex" -> convert_peerid2(key.v)
      [] form = "legacy" -> convert_peerid1(key.v)

\* the calls offered: a peer and one of the forms of its key
ConvertCalls ==
    {[op |-> "key", form |-> form, type |-> name, id |-> id] :
        form \in {"canonical", "hex", "legacy"},
        name \in {"user", "chat", "encr_chat", "channel"},
        id \in PeerIds}

ConvertInit ==
    /\ DB = EmptyDB
    /\ disk = EmptyDB
    /\ PEER_CACHE = << >>
    /\ TG_TEST = FALSE
    /\ call \in {c \in ConvertCalls : c.form = "legacy" => c.type \in {"user", "chat"}}
    /\ EngineIdle
    /\ PassIdle
    /\ TgIdle

Called(c, key) ==
    call' = [op |-> "convert", form |-> c.form, type |-> c.type, id |-> c.id, key |-> key,
             ret |-> convert(key), enc |-> Encoded(c.form, key)]

\* _convert and dbconvert's function are called on the key
Convert ==
    /\ call.op = "key"
    /\ Called(call, KeyOf(call.form, call.type, call.id))
    /\ UNCHANGED <<DB, disk, PEER_CACHE, TG_TEST, engineVars, passVars, tgVars>>

ConvertNext == Convert

SpecConvert == ConvertInit /\ [][ConvertNext]_vars

(***************************************************************************)
(* C30: for every peer type and every 32-bit id >= 0, _convert maps the    *)
(* canonical key, the hex permanent id and (user, chat) the legacy signed  *)
(* integer to the pair (id, type) of the peer, which is the pair the key   *)
(* of convert_peerid1 and convert_peerid2 encodes.                         *)
(***************************************************************************)
C30_SamePair ==
    call.op = "convert" =>
        /\ call.ret = <<[id |-> call.id, type |-> call.type]>>
        /\ call.enc = ToId(PeerOf(call.type, call.id))

(***************************************************************************)
(* logfmt.py PeerStore.find.  A key is None, an integer or a text; a       *)
(* display name is <<text>> or << >> for None (a NULL print_name).  The    *)
(* store is [data, name]: the set of (id, type) pairs that have an entry,  *)
(* and the name dictionary as the sequence of its items in insertion       *)
(* order, each [name, peer].  The result is [kind, ...]: "entry" for an    *)
(* entry of data, "unknown" for the '<Unknown>' entry __getitem__ adds,    *)
(* "placeholder" for the dictionary find builds, "raised" for an           *)
(* exception that leaves find.                                             *)
(***************************************************************************)
MaxNames == 2

IsHexText(t) == \A i \in 1..Len(t) : \E j \in 1..16 : HexChars[j] = t[i]

\* whether '#id' occurs in the text, and where it first does
SharpAt(t, i) == i + 2 <= Len(t) /\ SubSeq(t, i, i + 2) = <<"#", "i", "d">>

HasSharpId(t) == \E i \in 1..Len(t) : SharpAt(t, i)

AfterSharpId(t) ==
    SubSeq(t, (CHOOSE i \in 1..Len(t) : SharpAt(t, i) /\ \A j \in 1..(i - 1) : ~SharpAt(t, j)) + 3,
           Len(t))

BeforeSharpId(t) ==
    SubSeq(t, 1, (CHOOSE i \in 1..Len(t) : SharpAt(t, i) /\ \A j \in 1..(i - 1) : ~SharpAt(t, j)) - 1)

\* lines 229-232: a text that int() accepts is taken as that integer
AsInt(key) ==
    IF key.form = "str" /\ int(key.v) # << >>
    THEN [form |-> "int", v |-> Small(int(key.v)[1])]
    ELSE key

\* loads succeeds: 32 hex digits after the '$' signs
Loadable(t) == IsHexText(lstrip_dollar(t)) /\ Len(lstrip_dollar(t)) = 32

\* _convert(key) as __getitem__ uses it: the pair, or << >> when _convert
\* raises (int(None), int of the text after '#id', a2b_hex, struct.unpack)
\* or returns None, which the tuple assignment of line 201 cannot take
ConvertKey(k) ==
    IF k.form = "none" THEN << >>
    ELSE IF k.form = "int" THEN convert(k)
    ELSE IF HasSharpId(k.v)
    THEN IF int(AfterSharpId(k.v)) = << >> THEN << >>
         ELSE <<[id |-> Small(int(AfterSharpId(k.v))[1]), type |-> BeforeSharpId(k.v)]>>
    ELSE IF Loadable(k.v) THEN convert(k)
    ELSE << >>

\* key in k for two texts
InText(t, k) == \E i \in 1..(Len(k) + 1) : i + Len(t) - 1 <= Len(k) /\ SubSeq(k, i, i + Len(t) - 1) = t

\* the name of a key as a dictionary key: a text key is found under its name
NameOf(key) == IF key.form = "str" THEN <<key.v>> ELSE << >>

\* key in self.name
HasName(name, key) ==
    \E i \in 1..Len(name) :
        /\ name[i].name = NameOf(key)
        /\ key.form \in {"str", "none"}

\* self.data[peer]
DataEntry(data, peer) ==
    IF peer \in data THEN [kind |-> "entry", peer |-> peer]
    ELSE [kind |-> "raised", error |-> "KeyError"]

\* lines 214-216: the items in order; `key in k` raises TypeError on a name
\* that is None and on a key that is not a text
RECURSIVE ScanNames(_, _, _)
ScanNames(data, name, key) ==
    IF name = << >> THEN [kind |-> "placeholder", id |-> << >>, print |-> key]
    ELSE IF Head(name).name = << >> \/ key.form # "str"
    THEN [kind |-> "raised", error |-> "TypeError"]
    ELSE IF InText(key.v, Head(name).name[1]) THEN DataEntry(data, Head(name).peer)
    ELSE ScanNames(data, Tail(name), key)

\* the text '<Unknown>', as a value of the 'print' field
UnknownText == [form |-> "str", v |-> <<"<", "U", "n", "k", "n", "o", "w", "n", ">">>]

\* lines 199-205
getitem(data, c) ==
    IF c[1] \in data THEN [kind |-> "entry", peer |-> c[1]]
    ELSE [kind |-> "unknown", peer |-> c[1], print |-> UnknownText]

\* lines 207-218, c being what _convert made of the key
find(st, key, c) ==
    IF c # << >> THEN getitem(st.data, c)
    ELSE IF HasName(st.name, key)
    THEN DataEntry(st.data,
                   st.name[CHOOSE i \in 1..Len(st.name) : st.name[i].name = NameOf(key)].peer)
    ELSE ScanNames(st.data, st.name, key)

Text(str) ==
    CASE str = "al" -> <<"a", "l">>
      [] str = "a" -> <<"a">>
      [] str = "bo" -> <<"b", "o">>
      [] str = "zz" -> <<"z", "z">>
      [] str = "user#id5" -> <<"u", "s", "e", "r", "#", "i", "d", "5">>
      [] str = "user#idx" -> <<"u", "s", "e", "r", "#", "i", "d", "x">>
      [] str = "6" -> <<"6">>

User(n) == [id |-> Small(n), type |-> "user"]

\* the keys offered: None, the legacy keys of users 5 and 7, a key whose
\* type bits name no peer type, the permanent id of user 5, and texts
FindKeys ==
    { [form |-> "none"],
      [form |-> "int", v |-> Small(5)],
      [form |-> "int", v |-> Small(7)],
      [form |-> "int", v |-> PyInt(FALSE, <<5, 0, 0, 0, 3>>)],
      [form |-> "str", v |-> dumps(PeerOf("user", Small(5)))] }
    \cup {[form |-> "str", v |-> Text(t)] : t \in {"al", "a", "bo", "zz", "user#id5", "user#idx", "6"}}

NameItems == {[name |-> n, peer |-> User(p)] : n \in {<< >>, <<Text("al")>>, <<Text("bo")>>},
                                                  p \in {5, 6}}

\* dictionaries of at most MaxNames items, no name twice
NameDicts ==
    {d \in UNION {[1..n -> NameItems] : n \in 0..MaxNames} :
        \A i, j \in DOMAIN d : i # j => d[i].name # d[j].name}

FindCalls ==
    {[op |-> "key", st |-> [data |-> data, name |-> name], key |-> key] :
        data \in SUBSET {User(5), User(6)}, name \in NameDicts, key \in FindKeys}

FindInit ==
    /\ DB = EmptyDB
    /\ disk = EmptyDB
    /\ PEER_CACHE = << >>
    /\ TG_TEST = FALSE
    /\ call \in FindCalls
    /\ EngineIdle
    /\ PassIdle
    /\ TgIdle

\* find is called on the key
Find ==
    /\ call.op = "key"
    /\ call' = [op |-> "find", st |-> call.st, key |-> call.key,
                ret |-> find(call.st, call.key, ConvertKey(AsInt(call.key)))]
    /\ UNCHANGED <<DB, disk, PEER_CACHE, TG_TEST, engineVars, passVars, tgVars>>

FindNext == Find

SpecFind == FindInit /\ [][FindNext]_vars

\* the key names no peer: not as a key, not as a name, not as part of a name
NoMatch(st, key) ==
    /\ ConvertKey(AsInt(key)) = << >>
    /\ \A i \in 1..Len(st.name) :
        st.name[i].name # << >> /\ key.form = "str" => ~InText(key.v, st.name[i].name[1])

(***************************************************************************)
(* C31: find never fails: for a key that names no peer it returns a        *)
(* placeholder flagged '<Unknown>' and does not raise.                     *)
(***************************************************************************)
C31_FindNeverFails ==
    (call.op = "find" /\ NoMatch(call.st, call.key)) =>
        /\ call.ret.kind # "raised"
        /\ call.ret.print = UnknownText

(***************************************************************************)
(* C32: no step of the engine removes a peerinfo row, and a step changes   *)
(* the finished cursor of a peer that has a row only when it is the step   *)
(* in which export_for, called for that peer, stores its offset and        *)
(* returns: update_peer and log_msg leave the cursors alone.               *)
(***************************************************************************)
C32_CursorFrame ==
    [][\A pid \in DOMAIN DB.peerinfo :
        /\ pid \in DOMAIN DB'.peerinfo
        /\ DB'.peerinfo[pid].finished # DB.peerinfo[pid].finished =>
            /\ ef.stage \in {"probe", "overlap", "tail"}
            /\ ef'.stage = "return"
            /\ pid = to_id(from_peer(ef.item))]_vars

\* a second run has called update_peer on dialogs whose cursors are set
C32_Witness ==
    /\ run = 2
    /\ pc = "first"
    /\ ef = Idle
    /\ \A d \in Dialogs : Cursor(DB, d) > 0

(***************************************************************************)
(* C33: line reassembly.  What send_command returns is what the lines of   *)
(* the byte stream give, whatever chunks recv delivered the stream in.     *)
(* The lines are taken from the whole stream as it was when the command    *)
(* was sent (sc.wire0).  Stated for a command during which ready stayed    *)
(* set and the process ran.                                                *)
(***************************************************************************)
MaxStream == 3

\* the lines of the streams: a status line, a line of payload, a line of
\* other output and an empty line
LineSamples == {StatusLine(3), PayloadLine, OtherLine, EmptyLine}

LineStreams == {Flatten(ls) : ls \in UNION {[1..n -> LineSamples] : n \in 0..MaxStream}}

\* the interface after __init__ with run=True, with one of the streams on
\* its way
LinesInit ==
    /\ DB = EmptyDB
    /\ disk = EmptyDB
    /\ PEER_CACHE = << >>
    /\ TG_TEST = FALSE
    /\ call = NoCall
    /\ EngineIdle
    /\ PassIdle
    /\ ready = TRUE
    /\ closed = FALSE
    /\ buffer = << >>
    /\ \E st \in LineStreams : sock = [wire |-> st, shut |-> FALSE, timed |-> FALSE]
    /\ proc = "running"
    /\ sc = Idle
    /\ SupIdle

SpecLines == LinesInit /\ [][WireNext]_vars

RECURSIVE SplitLines(_)
SplitLines(b) ==
    IF HasLine(b)
    THEN <<SubSeq(b, 1, FirstNL(b))>> \o SplitLines(SubSeq(b, FirstNL(b) + 1, Len(b)))
    ELSE << >>

\* the lines from the status line on
RECURSIVE FromStatus(_, _)
FromStatus(lines, resync) ==
    IF lines = << >> THEN << >>
    ELSE IF resync /\ ~startswith(Head(lines), Prefix) THEN FromStatus(Tail(lines), resync)
    ELSE lines

\* the payload: whole lines until size bytes are there
RECURSIVE TakeReply(_, _, _)
TakeReply(lines, size, reply) ==
    IF lines = << >> \/ Len(reply) >= size THEN reply
    ELSE TakeReply(Tail(lines), size, reply \o Head(lines))

\* the outcome of send_command read off the lines: the value returned, the
\* ValueError of int(), or the timeout when the lines run out
ByLines(ls, stage, ret, error) ==
    IF stage = "returned"
    THEN /\ ls # << >>
         /\ int(From7(Head(ls))) # << >>
         /\ ret = <<json_loads(TakeReply(Tail(ls), int(From7(Head(ls)))[1], << >>))>>
    ELSE IF error = "ValueError"
    THEN /\ ls # << >>
         /\ int(From7(Head(ls))) = << >>
    ELSE \/ ls = << >>
         \/ /\ int(From7(Head(ls))) # << >>
            /\ Len(TakeReply(Tail(ls), int(From7(Head(ls)))[1], << >>)) < int(From7(Head(ls)))[1]

C33_ChunkIndependent ==
    (/\ sc.stage \in {"returned", "raised"}
     /\ sc.stage = "raised" => sc.error \in {"ValueError", "timeout"}
     /\ ~sc.lost
     /\ proc = "running") =>
        ByLines(FromStatus(SplitLines(sc.wire0), sc.resync), sc.stage, sc.ret, sc.error)

\* a command has returned its payload and the last recv ended inside a
\* line: the buffer holds the beginning of a line, the socket the rest
C33_Witness ==
    /\ sc.stage = "returned"
    /\ ~sc.lost
    /\ proc = "running"
    /\ sc.size > 0
    /\ Len(sc.reply) >= sc.size
    /\ buffer # << >>
    /\ buffer[Len(buffer)] # "\n"
    /\ sock.wire # << >>

(***************************************************************************)
(* The reader loop of tgcli.py (_run_cli, lines 117-140) on the lines the  *)
(* process writes to its standard output, with the callbacks export.py     *)
(* installs: on_json is MSG_Q.put (export.py:506), on_info the logger.     *)
(* A line is a sequence of bytes; "xFF" stands for a byte that is not      *)
(* UTF-8.  json.loads is computed on texts made of brackets: it nests at   *)
(* most MaxDepth deep before the interpreter raises RecursionError.        *)
(***************************************************************************)
MaxOut == 3
MaxDepth == 2

RECURSIVE Repeat(_, _)
Repeat(c, n) == IF n = 0 THEN << >> ELSE <<c>> \o Repeat(c, n - 1)

ObjLine == <<"{", "}", NL>>
BrokenLine == <<"[", NL>>
DeepLine == Repeat("[", MaxDepth + 1) \o <<NL>>
BadUtfLine == <<"[", "xFF", "]", NL>>

OutLines == {PayloadLine, ObjLine, OtherLine, BrokenLine, DeepLine, BadUtfLine}

\* bytes.decode('utf-8'): <<text>>, or << >> for UnicodeDecodeError
decode(b) == IF \E i \in 1..Len(b) : b[i] = "xFF" THEN << >> ELSE <<b>>

\* after the one element of a list its closing bracket must follow
Closing(t, r) ==
    IF r.err # "" THEN r
    ELSE IF r.next <= Len(t) /\ t[r.next] = "]"
    THEN [err |-> "", next |-> r.next + 1]
    ELSE [err |-> "ValueError"]

\* the scanner of json.loads from position i at nesting depth d: where the
\* value ends, or the exception
RECURSIVE ScanValue(_, _, _)
ScanValue(t, i, d) ==
    IF i > Len(t) THEN [err |-> "ValueError"]
    ELSE IF t[i] = "{"
    THEN IF i + 1 <= Len(t) /\ t[i + 1] = "}"
         THEN [err |-> "", next |-> i + 2]
         ELSE [err |-> "ValueError"]
    ELSE IF t[i] = "["
    THEN IF d >= MaxDepth THEN [err |-> "RecursionError"]
         ELSE IF i + 1 <= Len(t) /\ t[i + 1] = "]"
         THEN [err |-> "", next |-> i + 2]
         ELSE Closing(t, ScanValue(t, i + 1, d + 1))
    ELSE [err |-> "ValueError"]

\* json.loads(text): "" and the value (named by its text), or the exception
Scanned(t, r) ==
    IF r.err # "" THEN r.err
    ELSE IF r.next <= Len(t) THEN "ValueError"
    ELSE ""

reader_loads(t) == Scanned(t, ScanValue(t, 1, 0))

\* the thread is in its inner loop, the process runs, nothing read yet
ReaderInit ==
    /\ DB = EmptyDB
    /\ disk = EmptyDB
    /\ PEER_CACHE = << >>
    /\ TG_TEST = FALSE
    /\ call = NoCall
    /\ EngineIdle
    /\ PassIdle
    /\ ready = FALSE
    /\ closed = FALSE
    /\ buffer = << >>
    /\ sock = [wire |-> << >>, shut |-> FALSE, timed |-> FALSE]
    /\ sc = Idle
    /\ popen = << >>
    /\ selfproc = 0
    /\ tmpdir = "present"
    /\ sockfile = FALSE
    /\ cl = Idle
    /\ proc = "readline"
    /\ stdout \in UNION {[1..n -> OutLines] : n \in 0..MaxOut}
    /\ log = [stage |-> "loop", pos |-> 0, calls |-> << >>, error |-> ""]

ReaderFrame ==
    UNCHANGED <<DB, disk, PEER_CACHE, TG_TEST, call, engineVars, listing, hp, got, pq,
                closed, buffer, sc, supVars, stdout>>

\* lines 124-131 for line number n with text out: on_text, then on_json with
\* the value or on_info with the stripped text; an exception of json.loads
\* other than ValueError leaves the loop
Dispatch(n, out, res) ==
    IF out[1] \in {"[", "{"} /\ res = ""
    THEN /\ log' = [log EXCEPT !.pos = n,
                       !.calls = log.calls \o <<[cb |-> "on_text", n |-> n],
                                                [cb |-> "on_json", n |-> n]>>]
         /\ MSG_Q' = Append(MSG_Q, [n |-> puts + 1, obj |-> [text |-> strip(out), line |-> n]])
         /\ puts' = puts + 1
         /\ proc' = "readline"
    ELSE IF out[1] \in {"[", "{"} /\ res # "ValueError"
    THEN /\ log' = [log EXCEPT !.pos = n, !.error = res,
                       !.calls = log.calls \o <<[cb |-> "on_text", n |-> n]>>]
         /\ proc' = "unwind"
         /\ UNCHANGED <<MSG_Q, puts>>
    ELSE /\ log' = [log EXCEPT !.pos = n,
                       !.calls = log.calls \o <<[cb |-> "on_text", n |-> n],
                                                [cb |-> "on_info", n |-> n]>>]
         /\ proc' = "readline"
         /\ UNCHANGED <<MSG_Q, puts>>

\* lines 119-131, one turn of the inner loop: end of file leaves the loop,
\* a line that does not decode raises at line 120, the first line sets ready
ReaderLine ==
    /\ proc = "readline"
    /\ ~closed
    /\ IF log.pos = Len(stdout)
       THEN /\ proc' = "finally"
            /\ UNCHANGED <<ready, log, MSG_Q, puts>>
       ELSE IF decode(stdout[log.pos + 1]) = << >>
       THEN /\ proc' = "unwind"
            /\ log' = [log EXCEPT !.pos = log.pos + 1, !.error = "UnicodeDecodeError"]
            /\ UNCHANGED <<ready, MSG_Q, puts>>
       ELSE /\ ready' = TRUE
            /\ Dispatch(log.pos + 1, decode(stdout[log.pos + 1])[1],
                        reader_loads(strip(decode(stdout[log.pos + 1])[1])))
    /\ UNCHANGED sock
    /\ ReaderFrame

\* lines 132-140: only BrokenPipeError is caught; the finally clause shuts
\* the socket down; after a break ready is cleared and the outer loop goes
\* on, after any other exception the thread ends
ReaderFinally ==
    /\ proc \in {"finally", "unwind"}
    /\ sock' = [sock EXCEPT !.shut = TRUE]
    /\ IF proc = "finally"
       THEN ready' = FALSE /\ proc' = "top"
       ELSE proc' = "dead" /\ UNCHANGED ready
    /\ UNCHANGED <<log, MSG_Q, puts>>
    /\ ReaderFrame

ReaderNext ==
    \/ ReaderLine
    \/ ReaderFinally

SpecReader == ReaderInit /\ [][ReaderNext]_vars

\* a JSON text of the bracket alphabet, whatever its depth
RECURSIVE IsJsonText(_)
IsJsonText(t) ==
    \/ t = <<"[", "]">>
    \/ t = <<"{", "}">>
    \/ /\ Len(t) > 2
       /\ t[1] = "["
       /\ t[Len(t)] = "]"
       /\ IsJsonText(SubSeq(t, 2, Len(t) - 1))

\* the line is for on_json: it starts with '[' or '{' and is a JSON text
ForJson(raw) ==
    /\ raw[1] \in {"[", "{"}
    /\ IsJsonText(strip(raw))

Delivered(n, cb) == \E i \in DOMAIN log.calls : log.calls[i] = [cb |-> cb, n |-> n]

(***************************************************************************)
(* C34: every line read from the process is handed to exactly one of       *)
(* on_json (it starts with '[' or '{' and is JSON) and on_info (any other  *)
(* line); a line that does not parse is logged, does not end the reader    *)
(* loop, and is not put on the event queue.                                *)
(***************************************************************************)
C34_OneCallbackPerLine ==
    /\ proc \notin {"unwind", "dead"}
    /\ \A n \in 1..log.pos :
        /\ Delivered(n, "on_json") = ForJson(stdout[n])
        /\ Delivered(n, "on_info") = ~ForJson(stdout[n])
    /\ \A i \in DOMAIN MSG_Q : ForJson(stdout[MSG_Q[i].obj.line])

(***************************************************************************)
(* LRUCache on its own (export.py:28-54): get, [] and []= on a cache       *)
(* constructed with maxlen CacheLen, on one key more than it holds.  call  *)
(* records the operation and, for every key, the time it was last read     *)
(* with a hit or written (used) and the time it was last written (wrote).  *)
(***************************************************************************)
CacheLen == 2
MaxOps == 4

CacheKeys == 1..(CacheLen + 1)

CacheInit ==
    /\ DB = EmptyDB
    /\ disk = EmptyDB
    /\ PEER_CACHE = << >>
    /\ TG_TEST = FALSE
    /\ call = [op |-> "init", key |-> 0, ret |-> "", clock |-> 0,
               used |-> [k \in CacheKeys |-> 0], wrote |-> [k \in CacheKeys |-> 0]]
    /\ EngineIdle
    /\ PassIdle
    /\ TgIdle

CacheFrame == UNCHANGED <<DB, disk, TG_TEST, engineVars, passVars, tgVars>>

\* lines 40-46: get(key)
CacheGet(key) ==
    /\ call.clock < MaxOps
    /\ IF key \in Range(PEER_CACHE)
       THEN /\ PEER_CACHE' = LRU_touch(PEER_CACHE, key)
            /\ call' = [call EXCEPT !.op = "get", !.key = key, !.ret = "value",
                                    !.clock = call.clock + 1,
                                    !.used[key] = call.clock + 1]
       ELSE /\ PEER_CACHE' = PEER_CACHE
            /\ call' = [call EXCEPT !.op = "get", !.key = key, !.ret = "None",
                                    !.clock = call.clock + 1]
    /\ CacheFrame

\* lines 35-38: cache[key]; the pop of a missing key raises KeyError
CacheGetitem(key) ==
    /\ call.clock < MaxOps
    /\ IF key \in Range(PEER_CACHE)
       THEN /\ PEER_CACHE' = LRU_touch(PEER_CACHE, key)
            /\ call' = [call EXCEPT !.op = "getitem", !.key = key, !.ret = "value",
                                    !.clock = call.clock + 1,
                                    !.used[key] = call.clock + 1]
       ELSE /\ PEER_CACHE' = PEER_CACHE
            /\ call' = [call EXCEPT !.op = "getitem", !.key = key, !.ret = "KeyError",
                                    !.clock = call.clock + 1]
    /\ CacheFrame

\* lines 48-54: cache[key] = value
CacheSet(key) ==
    /\ call.clock < MaxOps
    /\ PEER_CACHE' = LRU_set(PEER_CACHE, key, CacheLen)
    /\ call' = [call EXCEPT !.op = "setitem", !.key = key, !.ret = "None",
                            !.clock = call.clock + 1,
                            !.used[key] = call.clock + 1,
                            !.wrote[key] = call.clock + 1]
    /\ CacheFrame

CacheNext ==
    \/ \E key \in CacheKeys : CacheGet(key)
    \/ \E key \in CacheKeys : CacheGetitem(key)
    \/ \E key \in CacheKeys : CacheSet(key)

SpecCache == CacheInit /\ [][CacheNext]_vars

\* the keys an operation removed from the cache
Evicted == Range(PEER_CACHE) \ Range(PEER_CACHE')

\* the operation writes a key the full cache does not hold
NewKeyOnFull ==
    /\ call'.op = "setitem"
    /\ call'.key \notin Range(PEER_CACHE)
    /\ Len(PEER_CACHE) >= CacheLen

(***************************************************************************)
(* C35: the cache never holds more than its capacity; writing a new key    *)
(* into a full cache removes exactly the key whose last read or write is   *)
(* the oldest; every other operation, the re-writing of a key that is      *)
(* there included, removes nothing.                                        *)
(***************************************************************************)
C35_EvictsLeastRecent ==
    [][/\ Len(PEER_CACHE') <= CacheLen
       /\ IF NewKeyOnFull
          THEN \E k \in Range(PEER_CACHE) :
                /\ Evicted = {k}
                /\ \A j \in Range(PEER_CACHE) : call.used[k] <= call.used[j]
          ELSE Evicted = {}]_vars

\* the cache is full, the last write removed a key, and a key written
\* before the removed one is still there: a read had renewed it
C35_Witness ==
    /\ call.op = "setitem"
    /\ Len(PEER_CACHE) = CacheLen
    /\ \E k \in CacheKeys \ Range(PEER_CACHE) :
        /\ call.wrote[k] > 0
        /\ \E j \in Range(PEER_CACHE) : j # call.key /\ call.wrote[j] < call.wrote[k]

(***************************************************************************)
(* C36: export_for returns None, storing the cursor, only in answer to a   *)
(* history page that is an empty list of messages; an answer that is not   *)
(* a list of messages (an object, a text) does not complete the dialog.    *)
(***************************************************************************)
C36_CompletesOnEmptyPage ==
    [][(/\ Fetching
        /\ ef'.stage = "return"
        /\ ef'.ret = << >>) =>
            /\ faults' = faults
            /\ cmd_history(remote, ef.item, ef.pos, TG_TEST) = << >>]_vars

(***************************************************************************)
(* Successive commands on one connection (tgcli.py:191-210).  The process  *)
(* answers the commands it has received in order, one line at a time: the  *)
(* status line 'ANSWER 2', then the payload, the number of the command.    *)
(* sock.answered is how many answers it has written in full, sock.half     *)
(* whether the status line of the next one is out.                         *)
(***************************************************************************)
MaxCmds == 2

AnswerTo(n) == <<Digits[n + 1], NL>>

CorrInit ==
    /\ DB = EmptyDB
    /\ disk = EmptyDB
    /\ PEER_CACHE = << >>
    /\ TG_TEST = FALSE
    /\ call = NoCall
    /\ EngineIdle
    /\ PassIdle
    /\ ready = TRUE
    /\ closed = FALSE
    /\ buffer = << >>
    /\ sock = [wire |-> << >>, shut |-> FALSE, timed |-> FALSE, answered |-> 0,
               half |-> FALSE]
    /\ proc = "running"
    /\ sc = [stage |-> "none", n |-> 0]
    /\ SupIdle

\* the caller goes on after a return or an exception: the next send_command
NextCommand ==
    /\ sc.stage \in {"none", "returned", "raised"}
    /\ sc.n < MaxCmds
    /\ \E r \in BOOLEAN :
        sc' = [stage |-> "wait", resync |-> r, line |-> << >>, size |-> 0,
               reply |-> << >>, ret |-> << >>, error |-> "", follow |-> << >>,
               lost |-> FALSE, wire0 |-> buffer \o sock.wire, n |-> sc.n + 1]
    /\ UNCHANGED <<ready, closed, buffer, sock, proc>>
    /\ WireFrame

\* the commands sendall has handed to the process
Received == IF sc.stage \in {"none", "wait"} THEN sc.n - 1 ELSE sc.n

\* the process writes the next line of its answers
ProcessAnswers ==
    /\ sock.answered < Received
    /\ IF ~sock.half
       THEN sock' = [sock EXCEPT !.wire = sock.wire \o StatusLine(2), !.half = TRUE]
       ELSE sock' = [sock EXCEPT !.wire = sock.wire \o AnswerTo(sock.answered + 1),
                                 !.half = FALSE,
                                 !.answered = sock.answered + 1]
    /\ UNCHANGED <<ready, closed, buffer, proc, sc>>
    /\ WireFrame

CorrNext ==
    \/ NextCommand
    \/ CommandStep
    \/ ProcessAnswers

SpecCorrelate == CorrInit /\ [][CorrNext]_vars

(***************************************************************************)
(* C37, answer correlation: what send_command returns for a command is     *)
(* the answer the process wrote for that command, also after an earlier    *)
(* command timed out and its answer, or the rest of it, came later.        *)
(***************************************************************************)
C37_OwnAnswer ==
    sc.stage = "returned" => sc.reply = AnswerTo(sc.n)

\* no dialog id occurs twice in the list
NoRepeat(list) ==
    \A i, j \in 1..Len(list) : DialogId(list[i]) = DialogId(list[j]) => i = j

(***************************************************************************)
(* C38: the list of dialogs the first pass goes through holds every dialog *)
(* id at most once, also when the pages of the listing overlap or repeat.  *)
(* Stated for pages none of which names a dialog twice.                    *)
(***************************************************************************)
C38_EachDialogOnce ==
    (/\ listing # Idle
     /\ listing.stage = "done"
     /\ \A n \in 1..Len(listing.pages) : NoRepeat(listing.pages[n])) =>
        NoRepeat(listing.dlist)

(***************************************************************************)
(* C39: after any sequence of log_msg calls the messages table holds at    *)
(* most one row for a message id and destination, the rows of id-only      *)
(* events, which have no destination, included.                            *)
(***************************************************************************)
C39_OneRowPerKey ==
    \A r \in BagToSet(DB.messages) :
        /\ DB.messages[r] = 1
        /\ \A q \in BagToSet(DB.messages) : (q.id = r.id /\ q.dest = r.dest) => q = r

(***************************************************************************)
(* C40: when the ledger holds no message to a user or group chat,          *)
(* export_holes raises nothing at its start and, with a channel-aware      *)
(* telegram-cli, still schedules the holes of every channel that has       *)
(* messages.                                                               *)
(***************************************************************************)
C40_EmptySelfNamespace ==
    (/\ hp # Idle
     /\ GotSelf(hp.db0.messages) = {}
     /\ ChannelHoles(hp.db0) # {}) =>
        /\ hp.error # "UnboundLocalError"
        /\ TG_TEST => Range(hp.holes) = ChannelHoles(hp.db0)

====
